---- MODULE Spec2Model ----
(***************************************************************************)
(* ChordToKit capture-and-remap engine.                                    *)
(*                                                                         *)
(*   features/chord_capture.py  ChordCapture  (bucket, history, undo)      *)
(*   features/ddti.py           DDTi          (device state, frames, kit0) *)
(*   hw/midi_io.py              Midi          (input queue, send)          *)
(*   ui/screens/*.py            capture screens polling the engine         *)
(*                                                                         *)
(* A list or a bytes object is a sequence; byte offset o of a frame is     *)
(* element o + 1 of its sequence.  None, where a list or bytes may stand,  *)
(* is NONE, the empty sequence: the code tests these values by truth, and  *)
(* never stores an empty list or empty bytes in their place.               *)
(***************************************************************************)
EXTENDS Integers, Sequences, FiniteSets, TLC

VARIABLES
    \* ---- ChordCapture (features/chord_capture.py) ----
    active,              \* self.active
    bucket,              \* self.bucket
    last_note_time,      \* self.last_note_time
    allow_duplicates,    \* self.allow_duplicates
    octave_down_lowest,  \* self.octave_down_lowest
    last_sent_chord,     \* self.last_sent_chord
    history,             \* self._history
    learned_mapping,     \* self._learned_mapping
    \* ---- DDTi (features/ddti.py) ----
    current_state,       \* self._current_state
    kit0_bulk,           \* self._kit0.bulk
    kit0_param,          \* self._kit0.param
    kit0_notes,          \* self._kit0.notes
    \* ---- Midi (hw/midi_io.py) and the world around it ----
    in_pending,          \* messages queued on the keyboard input port
    clock,               \* time.monotonic(), in whole seconds
    \* ---- ChordCaptureScreen (ui/screens/chord_screens.py) ----
    scr_active,          \* screen.active
    completion_time,     \* screen.completion_time
    \* ---- SingleNoteCaptureScreen (ui/screens/chord_screens.py) ----
    captured_trigger_note,   \* screen.captured_trigger_note, NoNote for None
    captured_keyboard_note,  \* screen.captured_keyboard_note, NoNote for None
    ddti_pending,        \* messages queued on the DDTi input port
    \* ---- what the last call did (observation only) ----
    ret,                 \* what process_midi_input returned, if it was the last call
    undo_ret,            \* what undo_last_mapping returned, if it was the last call
    pre_state,           \* get_current_state() on entry to the last process_midi_input
    push_note,           \* what _push_history_entry did in the last call
    wire,                \* data the output port accepted in the last call
    err,                 \* the exception the last call raised to its caller, "" if none
    frames,              \* frames process_midi_input sent since the last activate()
    played,              \* messages the keyboard has produced so far
    \* ---- Menu and the main loop (ui/menu.py, app.py) ----
    stack,               \* menu._stack, the screens by name, the top last
    dirty,               \* menu.dirty
    back_press_start,    \* menu._back_press_start is set (not None)
    back_long_press_triggered,  \* menu._back_long_press_triggered
    loop_alive,          \* the while loop of main() is still running
    loop_fault,          \* the exception of the last step: "", "caught", "uncaught"
    \* ---- Footswitch (hw/footswitch.py) ----
    fs_held,             \* the switch is held down: what is_pressed() reads
    fs_last,             \* self._last
    fs_last_change,      \* self._last_change, in milliseconds
    fs_now,              \* time.monotonic(), in milliseconds
    fs_ret,              \* what the last pressed_edge() returned
    fs_presses,          \* presses of the switch so far
    fs_edges,            \* pressed_edge() calls that returned True so far
    \* ---- MidiFilter (hw/midi_filter.py) ----
    f_running,           \* self.running
    f_thread,            \* where the filter thread stands in _filter_loop
    f_msg,               \* the message the thread has read and not yet handled
    f_in,                \* messages pending on the input port
    f_in_open,           \* self.input_port is an open port
    f_out_open,          \* self.output_port is an open port
    f_forwarded,         \* messages the output port has sent, in order
    f_read,              \* messages read from the input port, in order
    f_stop,              \* where a call of stop() stands
    \* ---- LearnMappingScreen (ui/screens/chord_screens.py) ----
    lm_active,           \* screen.active
    current_trigger,     \* screen.current_trigger
    learned_notes,       \* screen.learned_notes
    lm_completed,        \* screen.completion_time is set (not None)
    auto_continue_to_single,  \* screen.auto_continue_to_single
    set_calls,           \* set_learned_mapping calls since the last activate()
    launched,            \* the screen update() created and activated: "none", "single"
    \* ---- Config (footswitch_capture_mode) ----
    footswitch_mode,     \* cfg.get("footswitch_capture_mode", "all")
    \* ---- VariableTriggerCaptureScreen (ui/menu.py) ----
    vt_active,           \* screen.active
    vt_captured_triggers,   \* screen.captured_triggers
    vt_keyboard_notes,  \* screen.captured_keyboard_notes
    trigger_capture_phase,    \* screen.trigger_capture_phase
    vt_completed,        \* screen.completion_time is set (not None)
    vt_phases,           \* the values trigger_capture_phase took since activate()
    vt_sent,             \* frames the output port accepted since activate()
    \* ---- AlsaRouter (hw/alsa_router.py), one DDTi port and one external ----
    ddti_thru_enabled,   \* self._ddti_thru_enabled
    midi_filters,        \* self._midi_filters: the filter under the pair's key, 0 if none
    running_filters,     \* the MidiFilter objects whose thread is running
    created_filters,     \* MidiFilter objects created so far
    delivered            \* copies of the last DDTi message the external device got

vars == <<active, bucket, last_note_time, allow_duplicates, octave_down_lowest,
          last_sent_chord, history, learned_mapping, current_state, kit0_bulk,
          kit0_param, kit0_notes, in_pending, clock, scr_active, completion_time,
          captured_trigger_note, captured_keyboard_note, ddti_pending,
          ret, undo_ret, pre_state, push_note, wire, err, frames, played,
          stack, dirty, back_press_start, back_long_press_triggered, loop_alive,
          loop_fault, fs_held, fs_last, fs_last_change, fs_now, fs_ret,
          fs_presses, fs_edges, f_running, f_thread, f_msg, f_in, f_in_open,
          f_out_open, f_forwarded, f_read, f_stop,
          lm_active, current_trigger, learned_notes, lm_completed,
          auto_continue_to_single, set_calls, launched, footswitch_mode,
          vt_active, vt_captured_triggers, vt_keyboard_notes,
          trigger_capture_phase, vt_completed, vt_phases, vt_sent,
          ddti_thru_enabled, midi_filters, running_filters, created_filters,
          delivered>>

engine_vars == <<active, bucket, last_note_time, allow_duplicates,
                 octave_down_lowest, last_sent_chord, history, learned_mapping>>
ddti_vars == <<current_state, kit0_bulk, kit0_param, kit0_notes>>
kit0_vars == <<kit0_bulk, kit0_param, kit0_notes>>
screen_vars == <<scr_active, completion_time>>
single_vars == <<captured_trigger_note, captured_keyboard_note, ddti_pending>>
observed_vars == <<ret, undo_ret, pre_state, push_note, wire, err>>
loop_vars == <<stack, dirty, back_press_start, back_long_press_triggered,
               loop_alive, loop_fault>>
foot_vars == <<fs_held, fs_last, fs_last_change, fs_now, fs_ret,
               fs_presses, fs_edges>>
filter_vars == <<f_running, f_thread, f_msg, f_in, f_in_open, f_out_open,
                 f_forwarded, f_read, f_stop>>
learn_vars == <<lm_active, current_trigger, learned_notes, lm_completed,
                auto_continue_to_single, set_calls, launched>>
vt_vars == <<vt_active, vt_captured_triggers, vt_keyboard_notes,
             trigger_capture_phase, vt_completed, vt_phases, vt_sent>>
router_vars == <<ddti_thru_enabled, midi_filters, running_filters,
                 created_filters, delivered>>
ui_vars == <<learn_vars, footswitch_mode, vt_vars, router_vars>>
hw_vars == <<loop_vars, foot_vars, filter_vars, ui_vars>>
core_vars == <<engine_vars, ddti_vars, in_pending, clock, screen_vars, single_vars,
               observed_vars, frames, played>>

NONE == <<>>

\* None where a note number may stand.
NoNote == -1

\* ------------------------------------------------------------------ bounds
\* Longest queue of unread messages on the input port.
MaxPending == 5
\* Note messages the keyboard produces in one run of the capture specification.
MaxPlayed == 5
\* The count of frames per activation stops here (it reads "this many or more").
MaxFrames == 2
\* Last clock value explored.
MaxClock == 7
MaxRecorded == 1
MaxStack == 3
MaxPresses == 2
MaxFsTime == 80
MaxArrived == 3
\* MidiFilter objects the router creates
MaxFilters == 4

\* ------------------------------------------------------- program constants
max_notes == 4
timeout_seconds == 5
undo_limit == 8
TemplateLen == 90
BulkLen == 76
FOOTSWITCH_DEBOUNCE_MS == 25

\* -------------------------------------------------------------- sequences
Range(s) == {s[i] : i \in 1..Len(s)}

Min(S) == CHOOSE x \in S : \A y \in S : x <= y

Max(S) == CHOOSE x \in S : \A y \in S : x >= y

RECURSIVE FromKeys(_)
\* list(OrderedDict.fromkeys(s)): the distinct values in first-seen order.
FromKeys(s) ==
    IF s = <<>> THEN <<>>
    ELSE LET front == FromKeys(SubSeq(s, 1, Len(s) - 1))
             x == s[Len(s)]
         IN  IF x \in Range(front) THEN front ELSE Append(front, x)

RECURSIVE Insert(_, _)
Insert(x, s) ==
    IF s = <<>> THEN <<x>>
    ELSE IF x <= Head(s) THEN <<x>> \o s
         ELSE <<Head(s)>> \o Insert(x, Tail(s))

RECURSIVE Sorted(_)
\* sorted(s): ascending, duplicates kept.
Sorted(s) == IF s = <<>> THEN <<>> ELSE Insert(Head(s), Sorted(Tail(s)))

\* sorted(s, reverse=True)
SortedReverse(s) == LET a == Sorted(s) IN [i \in 1..Len(s) |-> a[Len(s) + 1 - i]]

\* s[:n]
Take(s, n) == SubSeq(s, 1, IF Len(s) < n THEN Len(s) ELSE n)

\* s.index(x), 1-based; x must occur in s.
IndexOf(s, x) == Min({i \in 1..Len(s) : s[i] = x})

\* ------------------------------------------------------------------ DDTi
\* constants.DDTI_NOTE_OFFSETS, and DDTi._bulk_note_offsets
note_offsets == <<11, 17, 23, 29>>

bulk_note_offsets == <<11, 17, 23, 29>>

\* DDTi._load_template: the bytes of data/kit0_clean.bin.  The file is data, not
\* code; every byte of it is a 7-bit value, and byte i stands for itself here.
template == [i \in 1..TemplateLen |-> (i - 1) % 128]

\* DDTi.get_current_state
get_current_state(cs) == IF cs # <<>> THEN cs ELSE NONE

\* Variants of the full write, against which C14 and C13 are tested: a
\* validation of the length alone, a frame that is the bare template.
validate_notes_length_only(ns, expected_count) == Len(ns) = expected_count

frame_data_template(ns) == template

\* DDTi._validate_notes: TRUE when it returns, FALSE when it raises ValueError.
validate_notes(ns, expected_count) ==
    /\ Len(ns) = expected_count
    /\ \A i \in 1..Len(ns) : 0 <= ns[i] /\ ns[i] <= 127

\* The list _validate_notes returns: [int(n) & 0x7F for n in ns]
masked_notes(ns) == [i \in 1..Len(ns) |-> ns[i] % 128]

RECURSIVE write_notes(_, _, _)
\* build_full_sysex, lines 65-66: buf[off] = ns[i] for each note offset from
\* the i-th on.
write_notes(buf, ns, i) ==
    IF i > Len(note_offsets) THEN buf
    ELSE write_notes([buf EXCEPT ![note_offsets[i] + 1] = ns[i]], ns, i + 1)

\* build_full_sysex, lines 64-66: a copy of the template with the notes written.
frame_data(ns) == write_notes(template, ns, 1)

\* DDTi.build_full_sysex: the outcome as a record; the caller installs state.
\* ok = FALSE is a ValueError; then nothing was assigned.
build_full_sysex(notes) ==
    IF validate_notes(notes, Len(note_offsets))
    THEN [ok |-> TRUE, data |-> frame_data(masked_notes(notes)),
          state |-> masked_notes(notes)]
    ELSE [ok |-> FALSE, data |-> NONE, state |-> NONE]

\* Reading the four slot bytes of a frame: [data[o] & 0x7F for o in offsets]
extract_slots(data) == [i \in 1..Len(note_offsets) |-> data[note_offsets[i] + 1] % 128]

\* A dict is the sequence of its <<key, value>> items in insertion order.
\* d[k] = v: the value is replaced in place, or the item is added at the end.
dict_set(d, k, v) ==
    IF \E i \in 1..Len(d) : d[i][1] = k
    THEN [i \in 1..Len(d) |-> IF d[i][1] = k THEN <<k, v>> ELSE d[i]]
    ELSE Append(d, <<k, v>>)

\* Variants of the partial write, against which C12 and C20 are tested: a
\* merge that starts from slots of 0, a lookup that tries the default table
\* before the known state.
RECURSIVE apply_changes_from_zero(_, _)
apply_changes_from_zero(state, changes) ==
    IF changes = <<>> THEN [i \in 1..Len(state) |-> 0]
    ELSE [apply_changes_from_zero(state, SubSeq(changes, 1, Len(changes) - 1))
             EXCEPT ![changes[Len(changes)][1] + 1] = changes[Len(changes)][2]]

trigger_index_default_first(cs, trigger_note) ==
    IF trigger_note = 36 THEN 0 ELSE IF trigger_note = 38 THEN 1
    ELSE IF trigger_note = 42 THEN 2 ELSE IF trigger_note = 49 THEN 3
    ELSE IF trigger_note \in Range(cs) THEN IndexOf(cs, trigger_note) - 1
    ELSE NoNote

\* A variant of the partial write that takes an unknown state for four slots
\* of 0, against which C11 is tested.
build_partial_sysex_from_blank(cs, trigger_notes) ==
    LET base == IF cs = NONE THEN <<0, 0, 0, 0>> ELSE cs
        new_state == [i \in 1..4 |->
                        IF \E j \in 1..Len(trigger_notes) : trigger_notes[j][1] = i - 1
                        THEN trigger_notes[CHOOSE j \in 1..Len(trigger_notes) :
                                              trigger_notes[j][1] = i - 1][2]
                        ELSE base[i]]
    IN  IF \A j \in 1..Len(trigger_notes) :
              /\ trigger_notes[j][1] \in 0..3
              /\ trigger_notes[j][2] \in 0..127
        THEN [ok |-> TRUE, data |-> write_notes(template, new_state, 1),
              state |-> new_state]
        ELSE [ok |-> FALSE, data |-> NONE, state |-> NONE]

\* build_partial_sysex, lines 95-101: new_state, the changes applied in order
\* to a copy of the current state (indices and values already known valid).
RECURSIVE apply_changes(_, _)
apply_changes(state, changes) ==
    IF changes = <<>> THEN state
    ELSE [apply_changes(state, SubSeq(changes, 1, Len(changes) - 1))
             EXCEPT ![changes[Len(changes)][1] + 1] = changes[Len(changes)][2]]

\* DDTi.build_partial_sysex: the outcome as a record, as build_full_sysex.
\* ok = FALSE is a ValueError.  The checks of lines 88-99 and the bytearray
\* store of line 106 (a value outside 0..255) raise before _current_state is
\* assigned (state = NONE); Message(...) of line 110 refuses a data byte
\* above 127 after line 109 has assigned it (state = new_state).
build_partial_sysex(cs, trigger_notes) ==
    IF /\ cs # NONE
       /\ \A i \in 1..Len(trigger_notes) :
             0 <= trigger_notes[i][1] /\ trigger_notes[i][1] < Len(note_offsets)
       /\ \A i \in 1..Len(trigger_notes) :
             0 <= trigger_notes[i][2] /\ trigger_notes[i][2] <= 127
    THEN LET new_state == apply_changes(cs, trigger_notes)
         IN  IF \A i \in 1..Len(new_state) : new_state[i] \in 0..127
             THEN [ok |-> TRUE, data |-> write_notes(template, new_state, 1),
                   state |-> new_state]
             ELSE IF \A i \in 1..Len(new_state) : new_state[i] \in 0..255
             THEN [ok |-> FALSE, data |-> NONE, state |-> new_state]
             ELSE [ok |-> FALSE, data |-> NONE, state |-> NONE]
    ELSE [ok |-> FALSE, data |-> NONE, state |-> NONE]

\* build_trigger_change_sysex, line 130
default_mapping == (36 :> 0) @@ (38 :> 1) @@ (42 :> 2) @@ (49 :> 3)

\* build_trigger_change_sysex, lines 134-141: trigger_idx, NoNote for None.
trigger_index(cs, trigger_note) ==
    IF trigger_note \in Range(cs) THEN IndexOf(cs, trigger_note) - 1
    ELSE IF trigger_note \in DOMAIN default_mapping THEN default_mapping[trigger_note]
    ELSE NoNote

\* build_trigger_change_sysex, lines 129-147: trigger_updates after the first
\* n pairs of zip(captured_triggers, new_notes).
RECURSIVE trigger_updates(_, _, _, _)
trigger_updates(cs, captured_triggers, new_notes, n) ==
    IF n = 0 THEN <<>>
    ELSE LET before == trigger_updates(cs, captured_triggers, new_notes, n - 1)
             trigger_idx == trigger_index(cs, captured_triggers[n])
         IN  IF trigger_idx = NoNote THEN before
             ELSE dict_set(before, trigger_idx, new_notes[n])

\* DDTi.build_trigger_change_sysex: the outcome as a record.
build_trigger_change_sysex(cs, captured_triggers, new_notes) ==
    IF Len(captured_triggers) # Len(new_notes) \/ cs = NONE
    THEN [ok |-> FALSE, data |-> NONE, state |-> NONE]
    ELSE build_partial_sysex(cs, trigger_updates(cs, captured_triggers, new_notes,
                                                 Len(new_notes)))

\* A call that builds a frame and returns it to its caller: the state the
\* call leaves and what the caller sees.  Nothing is sent by the call.
Built(r) ==
    /\ current_state' = IF r.state # NONE THEN r.state ELSE current_state
    /\ ret' = r.data
    /\ err' = IF r.ok THEN "" ELSE "ValueError"
    /\ undo_ret' = ""
    /\ push_note' = ""
    /\ wire' = NONE
    /\ UNCHANGED <<engine_vars, kit0_vars, in_pending, clock, screen_vars,
                   single_vars, pre_state, frames, played, hw_vars>>

\* DDTi.set_current_state: the length is checked, the values are not.
SetCurrentState(notes) ==
    /\ current_state' = IF Len(notes) # Len(note_offsets) THEN current_state
                         ELSE notes
    /\ err' = IF Len(notes) # Len(note_offsets) THEN "ValueError" ELSE ""
    /\ ret' = NONE
    /\ undo_ret' = ""
    /\ push_note' = ""
    /\ wire' = NONE
    /\ UNCHANGED <<engine_vars, kit0_vars, in_pending, clock, screen_vars,
                   single_vars, pre_state, frames, played, hw_vars>>

\* DDTi.build_full_sysex
BuildFullSysex(notes) == Built(build_full_sysex(notes))

\* DDTi.build_partial_sysex
BuildPartialSysex(trigger_notes) ==
    Built(build_partial_sysex(current_state, trigger_notes))

\* DDTi.build_trigger_change_sysex
BuildTriggerChangeSysex(captured_triggers, new_notes) ==
    Built(build_trigger_change_sysex(current_state, captured_triggers, new_notes))

\* ------------------------------------------------------------------ Midi
\* Midi.send: True when the output port took the message; False when no port
\* is open or the port raised (the exception is caught inside send).
PortOutcomes == {"sent", "no_port", "port_error"}

\* A variant of the send that reports success whatever the port did, against
\* which C26 is tested.
midi_send_always(outcome) == TRUE

midi_send(outcome) == outcome = "sent"

\* A message of the input port.
NoteOn(n, v) == [type |-> "note_on", note |-> n, velocity |-> v]

NoteOff(n) == [type |-> "note_off", note |-> n, velocity |-> 0]

\* ---------------------------------------------------------- ChordCapture
\* A variant of the timeout check that also fires at exactly timeout_seconds,
\* against which C15 is tested.
bucket_after_timeout_inclusive(bkt, now, last) ==
    IF bkt # <<>> /\ (now - last) >= timeout_seconds THEN <<>> ELSE bkt

\* process_midi_input, lines 94-97: the bucket after the timeout check.
bucket_after_timeout(bkt, now, last) ==
    IF bkt # <<>> /\ (now - last) > timeout_seconds THEN <<>> ELSE bkt

RECURSIVE accepted_notes(_, _, _)
\* process_midi_input, lines 100-113: new_notes.  Each message is tested
\* against the bucket as it was before the loop.
accepted_notes(msgs, bkt, dup) ==
    IF msgs = <<>> THEN <<>>
    ELSE LET msg == Head(msgs)
             rest == accepted_notes(Tail(msgs), bkt, dup)
         IN  IF msg.type = "note_on" /\ msg.velocity > 0
                  /\ (dup \/ msg.note \notin Range(bkt))
             THEN <<msg.note>> \o rest
             ELSE rest

\* Variants of the two resolution steps, against which C5 and C4 are tested:
\* a resolver that always takes arrival order, a remap that leaves the chord
\* ascending.
resolve_chord_arrival(bkt, dup) == Take(bkt, max_notes)

\* A variant of the resolution that sorts the bucket without first reducing
\* it to its distinct values, against which C22 is tested.
resolve_chord_sorted(bkt, dup) == Take(Sorted(bkt), max_notes)

remap_chord_ascending(chord) == Sorted(chord)

\* A variant of the resolution that takes one note too few, against which C37
\* is tested.
resolve_chord_short(bkt, dup) == Take(bkt, max_notes - 1)

\* process_midi_input, lines 122-127: the chord resolved from a full bucket.
resolve_chord(bkt, dup) ==
    IF dup THEN Take(bkt, max_notes)
    ELSE Take(Sorted(FromKeys(bkt)), max_notes)

\* process_midi_input, lines 131-139: final_chord in pad order.
remap_chord(chord) ==
    LET sorted_chord == SortedReverse(chord)
    IN  <<sorted_chord[4], sorted_chord[1], sorted_chord[2], sorted_chord[3]>>

\* A variant of the octave shift that leaves a note below 12 where it is,
\* against which C16 is tested.
apply_octave_down_no_floor(chord) ==
    IF chord = <<>> THEN chord
    ELSE LET lowest_note == Min(Range(chord))
             lowest_index == IndexOf(chord, lowest_note)
         IN  [chord EXCEPT ![lowest_index] =
                 IF lowest_note < 12 THEN lowest_note ELSE lowest_note - 12]

\* ChordCapture._apply_octave_down
apply_octave_down(chord) ==
    IF chord = <<>> THEN chord
    ELSE LET lowest_note == Min(Range(chord))
             lowest_index == IndexOf(chord, lowest_note)
             new_lowest == Max({0, lowest_note - 12})
         IN  [chord EXCEPT ![lowest_index] = new_lowest]

MappingEntry(state) == [type |-> "mapping", state |-> state]

Kit0Entry(bulk) == [type |-> "kit0", bulk |-> bulk]

\* Variants of the history discipline, against which C9, C10, C8 and C6 are
\* tested: a push that drops the new entry when the history is full, a push
\* that never suppresses, a capture that takes no snapshot, an undo that takes
\* the oldest entry.
push_history_entry_drop_newest(h, entry) ==
    IF h # <<>> /\ h[Len(h)] = entry THEN h
    ELSE IF Len(h) + 1 > undo_limit THEN h ELSE Append(h, entry)

push_history_entry_always(h, entry) ==
    LET appended == Append(h, entry)
    IN  IF Len(appended) > undo_limit THEN Tail(appended) ELSE appended

capture_snapshot_none(h, cs) == h

undo_entry_oldest(h) == h[1]

\* ChordCapture._push_history_entry: the history after the push.
push_history_entry(h, entry) ==
    IF h # <<>> /\ h[Len(h)] = entry THEN h
    ELSE LET appended == Append(h, entry)
         IN  IF Len(appended) > undo_limit THEN Tail(appended) ELSE appended

\* Which path _push_history_entry took (read off its conditions; observation).
push_path(h, entry) ==
    IF h # <<>> /\ h[Len(h)] = entry THEN "suppressed"
    ELSE IF Len(h) + 1 > undo_limit THEN "evicted" ELSE "appended"

\* process_midi_input, lines 143-145: the snapshot taken before the write.
capture_snapshot(h, cs) ==
    LET prev_state == get_current_state(cs)
    IN  IF prev_state # NONE
        THEN push_history_entry(h, MappingEntry(prev_state))
        ELSE h

\* ChordCapture.record_current_state_for_undo: the history after the call.
record_current_state(h, cs) ==
    LET cur == get_current_state(cs)
    IN  IF cur # NONE THEN push_history_entry(h, MappingEntry(cur)) ELSE h

\* undo_last_mapping, line 238: the entry that pop() returns.
undo_entry(h) == h[Len(h)]

\* ChordCapture.process_midi_input on an active engine: every value it leaves
\* behind.  outcome is what the output port does with a message.
process_midi_input(outcome) ==
    LET now == clock
        kept == bucket_after_timeout(bucket, now, last_note_time)
        new_notes == accepted_notes(in_pending, kept, allow_duplicates)
        filled == kept \o new_notes
        chord == resolve_chord(filled, allow_duplicates)
        final_chord == IF octave_down_lowest
                       THEN apply_octave_down(remap_chord(chord))
                       ELSE remap_chord(chord)
        prev_state == get_current_state(current_state)
        sysex_msg == build_full_sysex(final_chord)
        idle == [bucket |-> filled,
                 last_note_time |-> IF new_notes # <<>> THEN now ELSE last_note_time,
                 history |-> history, current_state |-> current_state,
                 last_sent_chord |-> last_sent_chord,
                 learned_mapping |-> learned_mapping,
                 ret |-> NONE, wire |-> NONE, frames |-> frames, push_note |-> ""]
        consumed == [idle EXCEPT
                       !.bucket = <<>>, !.ret = chord,
                       !.history = capture_snapshot(history, current_state),
                       !.push_note = IF prev_state # NONE
                                     THEN push_path(history, MappingEntry(prev_state))
                                     ELSE ""]
        written == [consumed EXCEPT
                       !.current_state = sysex_msg.state,
                       !.wire = IF midi_send(outcome) THEN sysex_msg.data ELSE NONE,
                       !.frames = IF frames < MaxFrames THEN frames + 1 ELSE frames,
                       !.last_sent_chord = get_current_state(sysex_msg.state),
                       !.learned_mapping = final_chord]
    IN  IF Len(filled) >= max_notes /\ Len(chord) = max_notes
        THEN IF sysex_msg.ok THEN written ELSE consumed
        ELSE idle

\* Variants of the two clean-ups, against which C23 and C24 are tested: a
\* clear that leaves the bucket, a flush that leaves the pending input.
clear_bucket_keeps(bkt) == bkt

flush_input_none(pending) == pending

\* ChordCapture.clear_bucket: the bucket after self.bucket.clear()
clear_bucket(bkt) == <<>>

\* list(self.midi.iter_input()): what is left on the input port once every
\* pending message has been read and dropped.
flush_input(pending) == <<>>

\* A variant of set_allow_duplicates that stores the policy and leaves the
\* bucket, against which C25 is tested.
SetAllowDuplicatesOnly(allow) ==
    /\ allow_duplicates' = allow
    /\ ret' = NONE
    /\ undo_ret' = ""
    /\ err' = ""
    /\ push_note' = ""
    /\ wire' = NONE
    /\ UNCHANGED <<active, bucket, last_note_time, octave_down_lowest, last_sent_chord,
                   history, learned_mapping, ddti_vars, in_pending, clock,
                   screen_vars, pre_state, frames, played, single_vars, hw_vars>>

\* ChordCapture.set_allow_duplicates
SetAllowDuplicates(allow) ==
    /\ allow_duplicates' = allow
    /\ bucket' = clear_bucket(bucket)
    /\ ret' = NONE
    /\ undo_ret' = ""
    /\ err' = ""
    /\ push_note' = ""
    /\ wire' = NONE
    /\ UNCHANGED <<active, last_note_time, octave_down_lowest, last_sent_chord,
                   history, learned_mapping, ddti_vars, in_pending, clock,
                   screen_vars, pre_state, frames, played, single_vars, hw_vars>>

\* ChordCapture.set_octave_down_lowest
SetOctaveDownLowest(octave_down) ==
    /\ octave_down_lowest' = octave_down
    /\ bucket' = clear_bucket(bucket)
    /\ ret' = NONE
    /\ undo_ret' = ""
    /\ err' = ""
    /\ push_note' = ""
    /\ wire' = NONE
    /\ UNCHANGED <<active, last_note_time, allow_duplicates, last_sent_chord,
                   history, learned_mapping, ddti_vars, in_pending, clock,
                   screen_vars, pre_state, frames, played, single_vars, hw_vars>>

\* ChordCapture.get_bucket_status: the entry 'needs' of the dict returned.
bucket_needs(bkt, dup) ==
    LET progress_count == IF dup THEN Len(bkt) ELSE Len(FromKeys(bkt))
    IN  max_notes - progress_count

\* ChordCapture.activate
Activate ==
    /\ active' = TRUE
    /\ bucket' = clear_bucket(bucket)
    /\ in_pending' = flush_input(in_pending)
    /\ last_note_time' = 0
    /\ ret' = NONE
    /\ undo_ret' = ""
    /\ err' = ""
    /\ push_note' = ""
    /\ wire' = NONE
    /\ frames' = 0
    /\ UNCHANGED <<allow_duplicates, octave_down_lowest, last_sent_chord, history,
                   learned_mapping, ddti_vars, clock, screen_vars, pre_state, played,
                   single_vars, hw_vars>>

\* ChordCapture.deactivate
Deactivate ==
    /\ active' = FALSE
    /\ bucket' = clear_bucket(bucket)
    /\ in_pending' = flush_input(in_pending)
    /\ ret' = NONE
    /\ undo_ret' = ""
    /\ err' = ""
    /\ push_note' = ""
    /\ wire' = NONE
    /\ UNCHANGED <<last_note_time, allow_duplicates, octave_down_lowest,
                   last_sent_chord, history, learned_mapping, ddti_vars, clock,
                   screen_vars, pre_state, frames, played,
                   single_vars, hw_vars>>

\* ChordCapture.process_midi_input
ProcessMidiInput(outcome) ==
    /\ in_pending' = <<>>
    /\ undo_ret' = ""
    /\ err' = ""
    /\ pre_state' = get_current_state(current_state)
    /\ IF ~active
       THEN /\ ret' = NONE
            /\ wire' = NONE
            /\ push_note' = ""
            /\ UNCHANGED <<bucket, last_note_time, last_sent_chord, history,
                           learned_mapping, current_state, frames>>
       ELSE LET r == process_midi_input(outcome)
            IN  /\ bucket' = r.bucket
                /\ last_note_time' = r.last_note_time
                /\ history' = r.history
                /\ current_state' = r.current_state
                /\ last_sent_chord' = r.last_sent_chord
                /\ learned_mapping' = r.learned_mapping
                /\ ret' = r.ret
                /\ wire' = r.wire
                /\ frames' = r.frames
                /\ push_note' = r.push_note
    /\ UNCHANGED <<active, allow_duplicates, octave_down_lowest, kit0_vars,
                   clock, screen_vars, played,
                   single_vars, hw_vars>>

\* ChordCapture.record_current_state_for_undo, as the screens call it before
\* a single-note edit.
RecordCurrentStateForUndo ==
    /\ history' = record_current_state(history, current_state)
    /\ push_note' = IF get_current_state(current_state) # NONE
                    THEN push_path(history, MappingEntry(current_state))
                    ELSE ""
    /\ ret' = NONE
    /\ undo_ret' = ""
    /\ err' = ""
    /\ wire' = NONE
    /\ UNCHANGED <<active, bucket, last_note_time, allow_duplicates,
                   octave_down_lowest, last_sent_chord, learned_mapping,
                   ddti_vars, in_pending, clock, screen_vars, pre_state,
                   frames, played,
                   single_vars, hw_vars>>

\* A variant of the pop that leaves the entry on the history, against which
\* C36 is tested.
history_kept(h) == h

\* undo_last_mapping, line 238: the history after self._history.pop()
history_popped(h) == SubSeq(h, 1, Len(h) - 1)

\* ChordCapture.undo_last_mapping.  DDTi defines no restore_kit0_bulk, so the
\* call at line 262 raises AttributeError, which line 274 catches.
UndoLastMapping(outcome) ==
    /\ ret' = NONE
    /\ err' = ""
    /\ push_note' = ""
    /\ IF history = <<>>
       THEN /\ undo_ret' = "False"
            /\ wire' = NONE
            /\ UNCHANGED <<history, current_state, last_sent_chord>>
       ELSE LET entry == undo_entry(history)
                msg == build_full_sysex(entry.state)
            IN  /\ history' = history_popped(history)
                /\ IF entry.type = "mapping" /\ msg.ok
                   THEN /\ current_state' = msg.state
                        /\ IF midi_send(outcome)
                           THEN /\ last_sent_chord' = entry.state
                                /\ wire' = msg.data
                                /\ undo_ret' = "True"
                           ELSE /\ wire' = NONE
                                /\ undo_ret' = "False"
                                /\ UNCHANGED last_sent_chord
                   ELSE /\ undo_ret' = "False"
                        /\ wire' = NONE
                        /\ UNCHANGED <<current_state, last_sent_chord>>
    /\ UNCHANGED <<active, bucket, last_note_time, allow_duplicates,
                   octave_down_lowest, learned_mapping, kit0_vars,
                   in_pending, clock, screen_vars, pre_state, frames, played,
                   single_vars, hw_vars>>

\* --------------------------------------------------------- DDTi, kit0 cache
\* Variants of the kit0 cache, against which C19 and C18 are tested: an ingest
\* that takes any 76-byte frame for a dump, a patch of the first match only.
ingest_sysex_frame_any_opcode(data, bulk, param, notes) ==
    IF Len(data) = BulkLen THEN <<data, param, NONE>> ELSE <<bulk, param, notes>>

\* A variant of the ingest that keeps the note list over a new dump, against
\* which C39 is tested.
ingest_sysex_frame_keeps_notes(data, bulk, param, notes) ==
    IF Len(data) = BulkLen /\ data[8] = 70 /\ data[9] = 1 /\ data[10] = 0
    THEN <<data, param, notes>>
    ELSE IF Len(data) = 16 /\ data[8] = 10 /\ data[9] = 2 /\ data[10] = 0
         THEN <<bulk, data, notes>>
         ELSE <<bulk, param, notes>>

patch_notes_first(buf, notes, old_note, new_note) ==
    IF \A i \in 1..Len(notes) : notes[i] # old_note THEN buf
    ELSE [buf EXCEPT ![bulk_note_offsets[IndexOf(notes, old_note)] + 1] = new_note % 128]

\* DDTi.ingest_sysex_frame: the cache <<bulk, param, notes>> after the call.
ingest_sysex_frame(data, bulk, param, notes) ==
    LET ln == Len(data)
    IN  IF ln = BulkLen /\ ln > 10 /\ data[8] = 70 /\ data[9] = 1 /\ data[10] = 0
        THEN <<data, param, NONE>>
        ELSE IF ln = 16 /\ ln > 10 /\ data[8] = 10 /\ data[9] = 2 /\ data[10] = 0
             THEN <<bulk, data, notes>>
             ELSE <<bulk, param, notes>>

\* DDTi.extract_kit0_notes: the notes it returns, which it also caches unless
\* it returns None.
extract_kit0_notes(bulk, notes) ==
    IF bulk = NONE THEN NONE
    ELSE IF notes # NONE THEN notes
    ELSE IF Max(Range(bulk_note_offsets)) >= Len(bulk) THEN NONE
    ELSE [i \in 1..Len(bulk_note_offsets) |-> bulk[bulk_note_offsets[i] + 1] % 128]

\* build_kit0_single_note_patch, lines 212-216, on buf from the idx-th match on.
RECURSIVE patch_notes(_, _, _, _)
patch_notes(buf, notes, old_note, new_note) ==
    IF \A i \in 1..Len(notes) : notes[i] # old_note THEN buf
    ELSE LET idx == IndexOf(notes, old_note)
         IN  patch_notes([buf EXCEPT ![bulk_note_offsets[idx] + 1] = new_note % 128],
                         [notes EXCEPT ![idx] = 128], old_note, new_note)

\* DDTi.build_kit0_single_note_patch: the message data it returns (NONE for
\* None) and the cache it leaves.
build_kit0_single_note_patch(old_note, new_note, bulk, notes) ==
    LET found == extract_kit0_notes(bulk, notes)
        unchanged == [data |-> NONE, bulk |-> bulk, notes |-> found]
    IN  IF bulk = NONE \/ found = NONE THEN [unchanged EXCEPT !.notes = notes]
        ELSE IF \A i \in 1..Len(found) : found[i] # old_note THEN unchanged
        ELSE IF old_note = new_note THEN unchanged
        ELSE LET buf == patch_notes(bulk, found, old_note, new_note)
             IN  [data |-> buf, bulk |-> buf,
                  notes |-> [i \in 1..Len(found) |->
                               IF found[i] = old_note THEN new_note % 128
                               ELSE found[i]]]

IngestSysexFrame(data) ==
    LET cache == ingest_sysex_frame(data, kit0_bulk, kit0_param, kit0_notes)
    IN  /\ kit0_bulk' = cache[1]
        /\ kit0_param' = cache[2]
        /\ kit0_notes' = cache[3]
        /\ ret' = NONE
        /\ undo_ret' = ""
        /\ err' = ""
        /\ push_note' = ""
        /\ wire' = NONE
        /\ UNCHANGED <<engine_vars, current_state, in_pending, clock, screen_vars,
                       pre_state, frames, played,
                   single_vars, hw_vars>>

ExtractKit0Notes ==
    LET found == extract_kit0_notes(kit0_bulk, kit0_notes)
    IN  /\ kit0_notes' = IF found # NONE THEN found ELSE kit0_notes
        /\ ret' = found
        /\ undo_ret' = ""
        /\ err' = ""
        /\ push_note' = ""
        /\ wire' = NONE
        /\ UNCHANGED <<engine_vars, current_state, kit0_bulk, kit0_param,
                       in_pending, clock, screen_vars, pre_state, frames, played,
                   single_vars, hw_vars>>

BuildKit0SingleNotePatch(old_note, new_note) ==
    LET r == build_kit0_single_note_patch(old_note, new_note, kit0_bulk, kit0_notes)
    IN  /\ kit0_bulk' = r.bulk
        /\ kit0_notes' = r.notes
        /\ ret' = r.data
        /\ undo_ret' = ""
        /\ err' = ""
        /\ push_note' = ""
        /\ wire' = NONE
        /\ UNCHANGED <<engine_vars, current_state, kit0_param, in_pending, clock,
                       screen_vars, pre_state, frames, played,
                   single_vars, hw_vars>>

\* DDTiSyncScreen.update, with the SysEx messages pending on the DDTi input
\* (none or one): ingest; on the first dump, extract the notes and record the
\* current state for undo; then extract the notes of a cached dump.
SyncUpdate(msgs) ==
    LET cache == IF msgs = <<>> THEN <<kit0_bulk, kit0_param, kit0_notes>>
                 ELSE ingest_sysex_frame(msgs[1], kit0_bulk, kit0_param, kit0_notes)
        captured == msgs # <<>> /\ kit0_bulk = NONE /\ cache[1] # NONE
        notes == extract_kit0_notes(cache[1], cache[3])
    IN  /\ kit0_bulk' = cache[1]
        /\ kit0_param' = cache[2]
        /\ kit0_notes' = IF notes # NONE THEN notes ELSE cache[3]
        /\ history' = IF captured /\ notes # NONE
                      THEN record_current_state(history, current_state)
                      ELSE history
        /\ push_note' = IF captured /\ notes # NONE
                           /\ get_current_state(current_state) # NONE
                        THEN push_path(history, MappingEntry(current_state))
                        ELSE ""
        /\ ret' = NONE
        /\ undo_ret' = ""
        /\ err' = ""
        /\ wire' = NONE
        /\ UNCHANGED <<active, bucket, last_note_time, allow_duplicates,
                       octave_down_lowest, last_sent_chord, learned_mapping,
                       current_state, in_pending, clock, screen_vars, single_vars,
                       pre_state, frames, played, hw_vars>>

\* ChordCapture.record_kit0_bulk_for_undo, given the cached frame as the
\* snapshot taken before a patch.
RecordKit0BulkForUndo ==
    /\ history' = IF kit0_bulk # NONE
                  THEN push_history_entry(history, Kit0Entry(kit0_bulk))
                  ELSE history
    /\ push_note' = IF kit0_bulk # NONE
                    THEN push_path(history, Kit0Entry(kit0_bulk))
                    ELSE ""
    /\ ret' = NONE
    /\ undo_ret' = ""
    /\ err' = ""
    /\ wire' = NONE
    /\ UNCHANGED <<active, bucket, last_note_time, allow_duplicates,
                   octave_down_lowest, last_sent_chord, learned_mapping,
                   ddti_vars, in_pending, clock, screen_vars, pre_state,
                   frames, played,
                   single_vars, hw_vars>>

\* ---------------------------------------------------- ChordCaptureScreen
\* ChordCaptureScreen.activate, on a screen just created (app.py lines 117-119).
ScreenActivate ==
    /\ ~scr_active
    /\ scr_active' = TRUE
    /\ completion_time' = 0
    /\ active' = TRUE
    /\ bucket' = <<>>
    /\ in_pending' = <<>>
    /\ last_note_time' = 0
    /\ ret' = NONE
    /\ undo_ret' = ""
    /\ err' = ""
    /\ push_note' = ""
    /\ wire' = NONE
    /\ frames' = 0
    /\ UNCHANGED <<allow_duplicates, octave_down_lowest, last_sent_chord, history,
                   learned_mapping, ddti_vars, clock, pre_state, played,
                   single_vars, hw_vars>>

\* ChordCaptureScreen.on_key(BUTTON_LEFT): deactivate, and the menu pops it.
ScreenBack ==
    /\ scr_active
    /\ scr_active' = FALSE
    /\ active' = FALSE
    /\ bucket' = <<>>
    /\ in_pending' = <<>>
    /\ ret' = NONE
    /\ undo_ret' = ""
    /\ err' = ""
    /\ push_note' = ""
    /\ wire' = NONE
    /\ UNCHANGED <<completion_time, last_note_time, allow_duplicates,
                   octave_down_lowest, last_sent_chord, history, learned_mapping,
                   ddti_vars, clock, pre_state, frames, played,
                   single_vars, hw_vars>>

\* ChordCaptureScreen.update followed by BaseCaptureScreen.update, as one tick
\* of the main loop runs them on the top screen.  An inactive screen returns
\* at once.  completion_time 0 is None (both are false to `if`).
ScreenUpdate(outcome) ==
    /\ scr_active
    /\ active
    /\ LET r == process_midi_input(outcome)
           done_at == IF r.ret # NONE THEN clock ELSE completion_time
           leave == done_at # 0 /\ (clock - done_at) >= 1
       IN  /\ completion_time' = done_at
           /\ scr_active' = ~leave
           /\ active' = ~leave
           /\ bucket' = IF leave THEN <<>> ELSE r.bucket
           /\ last_note_time' = r.last_note_time
           /\ history' = r.history
           /\ current_state' = r.current_state
           /\ last_sent_chord' = r.last_sent_chord
           /\ learned_mapping' = r.learned_mapping
           /\ ret' = r.ret
           /\ wire' = r.wire
           /\ frames' = r.frames
           /\ push_note' = r.push_note
    /\ in_pending' = <<>>
    /\ undo_ret' = ""
    /\ err' = ""
    /\ pre_state' = get_current_state(current_state)
    /\ UNCHANGED <<allow_duplicates, octave_down_lowest, kit0_vars, clock, played,
                   single_vars, hw_vars>>

\* ------------------------------------------------ SingleNoteCaptureScreen
\* update, lines 395-407: captured_trigger_note after the loop over the DDTi
\* messages.
RECURSIVE selected_trigger(_, _, _)
selected_trigger(msgs, selecting, trigger) ==
    IF msgs = <<>> THEN trigger
    ELSE LET msg == Head(msgs)
         IN  selected_trigger(Tail(msgs), selecting,
                IF /\ selecting
                   /\ msg.type = "note_on" /\ msg.velocity > 0
                   /\ learned_mapping # NONE /\ msg.note \in Range(learned_mapping)
                THEN msg.note ELSE trigger)

\* update, lines 414-416: the first key press among the keyboard messages,
\* NoNote if there is none.
first_key_press(msgs) ==
    IF \E i \in 1..Len(msgs) : msgs[i].type = "note_on" /\ msgs[i].velocity > 0
    THEN msgs[Min({i \in 1..Len(msgs) :
                      msgs[i].type = "note_on" /\ msgs[i].velocity > 0})].note
    ELSE NoNote

\* A variant of the single-note change that overwrites every slot holding the
\* trigger note, against which C30 is tested.
send_single_note_change_every_slot(old_note, new_note, outcome) ==
    LET same == [history |-> history, current_state |-> current_state,
                 learned_mapping |-> learned_mapping, wire |-> NONE,
                 push_note |-> ""]
    IN  IF old_note = NoNote \/ new_note = NoNote THEN same
        ELSE IF learned_mapping = NONE THEN same
        ELSE IF old_note \notin Range(learned_mapping) THEN same
        ELSE LET new_mapping == [i \in 1..Len(learned_mapping) |->
                                    IF learned_mapping[i] = old_note THEN new_note
                                    ELSE learned_mapping[i]]
                 sysex_msg == build_full_sysex(new_mapping)
                 sent == midi_send(outcome)
             IN  IF ~sysex_msg.ok THEN same
                 ELSE [same EXCEPT
                         !.history = record_current_state(history, current_state),
                         !.current_state = sysex_msg.state,
                         !.wire = IF sent THEN sysex_msg.data ELSE NONE,
                         !.learned_mapping = IF sent THEN new_mapping
                                             ELSE learned_mapping]

\* SingleNoteCaptureScreen._send_single_note_change: every value it leaves.
send_single_note_change(old_note, new_note, outcome) ==
    LET same == [history |-> history, current_state |-> current_state,
                 learned_mapping |-> learned_mapping, wire |-> NONE,
                 push_note |-> ""]
    IN  IF old_note = NoNote \/ new_note = NoNote THEN same
        ELSE IF learned_mapping = NONE THEN same
        ELSE IF old_note \notin Range(learned_mapping) THEN same
        ELSE LET index == IndexOf(learned_mapping, old_note)
                 new_mapping == [learned_mapping EXCEPT ![index] = new_note]
                 sysex_msg == build_full_sysex(new_mapping)
                 sent == midi_send(outcome)
                 recorded == [same EXCEPT
                                !.history = record_current_state(history, current_state),
                                !.push_note =
                                    IF get_current_state(current_state) # NONE
                                    THEN push_path(history, MappingEntry(current_state))
                                    ELSE ""]
             IN  IF ~sysex_msg.ok THEN recorded
                 ELSE [recorded EXCEPT
                         !.current_state = sysex_msg.state,
                         !.wire = IF sent THEN sysex_msg.data ELSE NONE,
                         !.learned_mapping = IF sent THEN new_mapping
                                             ELSE learned_mapping]

\* SingleNoteCaptureScreen.activate
SingleActivate ==
    /\ ~scr_active
    /\ scr_active' = TRUE
    /\ completion_time' = 0
    /\ captured_trigger_note' = NoNote
    /\ captured_keyboard_note' = NoNote
    /\ in_pending' = <<>>
    /\ ddti_pending' = <<>>
    /\ ret' = NONE
    /\ undo_ret' = ""
    /\ err' = ""
    /\ push_note' = ""
    /\ wire' = NONE
    /\ UNCHANGED <<engine_vars, ddti_vars, clock, pre_state, frames, played, hw_vars>>

\* SingleNoteCaptureScreen.on_key(BUTTON_LEFT): deactivate, and the menu pops it.
SingleBack ==
    /\ scr_active
    /\ scr_active' = FALSE
    /\ in_pending' = <<>>
    /\ ddti_pending' = <<>>
    /\ ret' = NONE
    /\ undo_ret' = ""
    /\ err' = ""
    /\ push_note' = ""
    /\ wire' = NONE
    /\ UNCHANGED <<engine_vars, ddti_vars, clock, completion_time,
                   captured_trigger_note, captured_keyboard_note, pre_state,
                   frames, played, hw_vars>>

\* SingleNoteCaptureScreen.update followed by BaseCaptureScreen.update.
\* capture_enabled is whether the 40 ms guard window after activate() is over.
SingleUpdate(outcome, capture_enabled) ==
    /\ scr_active
    /\ LET trigger == selected_trigger(ddti_pending,
                         capture_enabled /\ captured_keyboard_note = NoNote,
                         captured_trigger_note)
           listening == /\ capture_enabled
                        /\ trigger # NoNote
                        /\ captured_keyboard_note = NoNote
           key == IF listening THEN first_key_press(in_pending) ELSE NoNote
           r == send_single_note_change(trigger, key, outcome)
           done_at == IF key # NoNote THEN clock ELSE completion_time
           leave == done_at # 0 /\ (clock - done_at) >= 1
       IN  /\ captured_trigger_note' = trigger
           /\ captured_keyboard_note' = IF key # NoNote THEN key
                                        ELSE captured_keyboard_note
           /\ ddti_pending' = <<>>
           /\ in_pending' = IF listening \/ leave THEN <<>> ELSE in_pending
           /\ history' = r.history
           /\ current_state' = r.current_state
           /\ learned_mapping' = r.learned_mapping
           /\ wire' = r.wire
           /\ push_note' = r.push_note
           /\ completion_time' = done_at
           /\ scr_active' = ~leave
    /\ ret' = NONE
    /\ undo_ret' = ""
    /\ err' = ""
    /\ UNCHANGED <<active, bucket, last_note_time, allow_duplicates,
                   octave_down_lowest, last_sent_chord, kit0_vars, clock,
                   pre_state, frames, played, hw_vars>>

\* ------------------------------------------------- Menu and the main loop
\* Menu.push, Menu.pop and the dirty flag they set: the stack and the flag
\* after the ScreenResult res of a screen has been applied (menu.py, lines
\* 1308-1313 and 1320-1325).
menu_push(stk, name) == Append(stk, name)

menu_pop(stk) == IF Len(stk) > 1 THEN SubSeq(stk, 1, Len(stk) - 1) ELSE stk

apply_result(stk, res) ==
    IF res = "push" THEN menu_push(stk, "screen")
    ELSE IF res = "pop" THEN menu_pop(stk)
    ELSE stk

\* What on_key of the top screen can do: return a ScreenResult that asks for
\* nothing, a redraw, a push or a pop, or raise.
KeyResults == {"none", "dirty", "push", "pop", "raise"}

\* What update of the top screen can do.
UpdateResults == {"none", "dirty", "pop", "raise"}

\* Menu.handle_events with one event (ev, action), called from the loop of
\* main().  on_key is called outside any try; main() catches
\* KeyboardInterrupt alone, so an exception of on_key ends the loop.
HandleEvents(ev, action, res) ==
    /\ loop_alive
    /\ res = "push" => Len(stack) < MaxStack
    /\ LET calls == \/ (action = "left" /\ ev = "release"
                           /\ back_press_start /\ ~back_long_press_triggered)
                     \/ (action = "other" /\ ev = "press")
           raised == calls /\ res = "raise"
       IN  /\ loop_fault' = IF raised THEN "uncaught" ELSE ""
           /\ loop_alive' = ~raised
           /\ stack' = IF calls /\ ~raised THEN apply_result(stack, res) ELSE stack
           /\ dirty' = IF (calls /\ ~raised) /\ (res = "dirty" \/ stack' # stack)
                       THEN TRUE ELSE dirty
           /\ back_press_start' = IF action = "left" /\ ~raised
                                  THEN ev = "press" ELSE back_press_start
           /\ back_long_press_triggered' =
                  IF action = "left" /\ ~raised THEN FALSE
                  ELSE back_long_press_triggered
    /\ UNCHANGED <<core_vars, foot_vars, filter_vars, ui_vars>>

\* Menu.update, and the render that main() does after it when the menu is
\* dirty or the screen changed.  elapsed: the back button has been held for
\* the long-press threshold.  An exception of the screen's update is caught.
MenuUpdate(elapsed, res) ==
    /\ loop_alive
    /\ Len(stack) < MaxStack \/ ~(back_press_start /\ elapsed)
    /\ IF back_press_start /\ ~back_long_press_triggered /\ elapsed
       THEN /\ back_long_press_triggered' = TRUE
            /\ stack' = menu_push(stack, "shutdown")
            /\ loop_fault' = ""
       ELSE /\ back_long_press_triggered' = back_long_press_triggered
            /\ stack' = IF res = "pop" THEN menu_pop(stack) ELSE stack
            /\ loop_fault' = IF res = "raise" THEN "caught" ELSE ""
    /\ dirty' = FALSE
    /\ UNCHANGED <<back_press_start, loop_alive>>
    /\ UNCHANGED <<core_vars, foot_vars, filter_vars, ui_vars>>

\* main(), lines 92-115: the footswitch was pressed; a running 4-note capture
\* is aborted, or a capture screen is activated and pushed.
LoopFootswitch ==
    /\ loop_alive
    /\ stack[Len(stack)] = "capture" \/ Len(stack) < MaxStack
    /\ stack' = IF stack[Len(stack)] = "capture" THEN menu_pop(stack)
                ELSE menu_push(stack, "capture")
    /\ dirty' = TRUE
    /\ loop_fault' = ""
    /\ UNCHANGED <<back_press_start, back_long_press_triggered, loop_alive>>
    /\ UNCHANGED <<core_vars, foot_vars, filter_vars, ui_vars>>

\* main(), lines 94-119, with the footswitch mode of the configuration: the
\* top screen is tested against ChordCaptureScreen alone ("capture"); a
\* SingleNoteCaptureScreen ("single") is a BaseCaptureScreen and no
\* ChordCaptureScreen, so with one on top the else branch runs.
MainFootswitch ==
    /\ loop_alive
    /\ stack[Len(stack)] = "capture" \/ Len(stack) < MaxStack
    /\ stack' = IF stack[Len(stack)] = "capture" THEN menu_pop(stack)
                ELSE IF footswitch_mode = "single" THEN menu_push(stack, "single")
                ELSE menu_push(stack, "capture")
    /\ dirty' = TRUE
    /\ loop_fault' = ""
    /\ UNCHANGED <<back_press_start, back_long_press_triggered, loop_alive>>
    /\ UNCHANGED <<core_vars, foot_vars, filter_vars, ui_vars>>

\* ChordCaptureMenuScreen._toggle_footswitch_mode
ToggleFootswitchMode ==
    /\ loop_alive
    /\ footswitch_mode' = IF footswitch_mode = "all" THEN "single" ELSE "all"
    /\ UNCHANGED <<core_vars, loop_vars, foot_vars, filter_vars, learn_vars,
                   vt_vars, router_vars>>

\* BaseCaptureScreen.on_key(BUTTON_LEFT) on the release of the back button,
\* with a capture screen on top: the screen deactivates and is popped.
CaptureBack ==
    /\ loop_alive
    /\ stack[Len(stack)] \in {"capture", "single"}
    /\ stack' = menu_pop(stack)
    /\ dirty' = TRUE
    /\ loop_fault' = ""
    /\ back_press_start' = FALSE
    /\ back_long_press_triggered' = FALSE
    /\ UNCHANGED loop_alive
    /\ UNCHANGED <<core_vars, foot_vars, filter_vars, ui_vars>>

\* ---------------------------------------------------- LearnMappingScreen
\* The menu of ui/menu_system.py with the screens of ui/screens: "home",
\* "chordmenu" (ChordCaptureMenuScreen), "learn" (LearnMappingScreen) and
\* "single" (SingleNoteCaptureScreen).

\* What no action of this section touches.
learn_rest == <<active, bucket, last_note_time, allow_duplicates,
                octave_down_lowest, last_sent_chord, history, ddti_vars, clock,
                observed_vars, frames, played, back_press_start,
                back_long_press_triggered, loop_alive, foot_vars, filter_vars,
                footswitch_mode, vt_vars, router_vars>>

\* The SingleNoteCaptureScreen of the menu stack: activate(), and no call.
single_fresh ==
    /\ scr_active' = TRUE
    /\ completion_time' = 0
    /\ captured_trigger_note' = NoNote
    /\ captured_keyboard_note' = NoNote

single_same ==
    UNCHANGED <<scr_active, completion_time, captured_trigger_note,
                captured_keyboard_note>>

\* LearnMappingScreen.__init__ and activate(): a new screen, listening.
learn_fresh(auto) ==
    /\ lm_active' = TRUE
    /\ current_trigger' = 0
    /\ learned_notes' = <<>>
    /\ lm_completed' = FALSE
    /\ auto_continue_to_single' = auto
    /\ set_calls' = 0
    /\ launched' = "none"

\* LearnMappingScreen._min_vel
min_vel == 8

\* A variant of the test of line 182 that takes every note for a new one,
\* against which C33 is tested.
note_is_new_always(note, notes) == TRUE

\* update, line 182: msg.note not in self.learned_notes
note_is_new(note, notes) == note \notin Range(notes)

\* update, lines 175-196: the note the loop over the DDTi messages learns,
\* NoNote if none.  now is read once per call, so the first message that
\* passes the velocity test sets _last_hit_ts = now and every later message
\* of the same call fails the debounce test.
learn_hit(msgs, notes, debounced) ==
    LET hits == {i \in 1..Len(msgs) :
                    msgs[i].type = "note_on" /\ msgs[i].velocity >= min_vel}
    IN  IF hits = {} \/ ~debounced THEN NoNote
        ELSE IF note_is_new(msgs[Min(hits)].note, notes) THEN msgs[Min(hits)].note
        ELSE NoNote

\* Menu.update, lines 110-121: the stack after the ScreenResult of the top
\* screen's update(); pop is honoured, push is not looked at.
update_result(stk, pop, push) == IF pop THEN menu_pop(stk) ELSE stk

\* HomeScreen.on_key(BUTTON_SELECT) on the row "Chord Capture".
OpenChordMenu ==
    /\ loop_alive
    /\ stack[Len(stack)] = "home"
    /\ Len(stack) < MaxStack
    /\ stack' = menu_push(stack, "chordmenu")
    /\ dirty' = TRUE
    /\ loop_fault' = ""
    /\ single_same
    /\ UNCHANGED <<learned_mapping, in_pending, ddti_pending, learn_vars, learn_rest>>

\* ChordCaptureMenuScreen._start_single_note_capture and the Menu.push of
\* its result: Learn Mapping first when no mapping has been learned.
StartSingleNoteCapture ==
    /\ loop_alive
    /\ stack[Len(stack)] = "chordmenu"
    /\ Len(stack) < MaxStack
    /\ IF learned_mapping = NONE
       THEN /\ learn_fresh(TRUE)
            /\ stack' = menu_push(stack, "learn")
            /\ single_same
       ELSE /\ single_fresh
            /\ stack' = menu_push(stack, "single")
            /\ UNCHANGED learn_vars
    /\ in_pending' = <<>>
    /\ ddti_pending' = <<>>
    /\ dirty' = TRUE
    /\ loop_fault' = ""
    /\ UNCHANGED <<learned_mapping, learn_rest>>

\* ChordCaptureMenuScreen._start_learn_mapping and the Menu.push of its result.
StartLearnMapping ==
    /\ loop_alive
    /\ stack[Len(stack)] = "chordmenu"
    /\ Len(stack) < MaxStack
    /\ learn_fresh(FALSE)
    /\ stack' = menu_push(stack, "learn")
    /\ in_pending' = <<>>
    /\ ddti_pending' = <<>>
    /\ dirty' = TRUE
    /\ loop_fault' = ""
    /\ single_same
    /\ UNCHANGED <<learned_mapping, learn_rest>>

\* on_key(BUTTON_LEFT) of the top screen and the Menu.pop of its result: a
\* capture screen deactivates (and drains the inputs) before it is popped.
MenuBack ==
    /\ loop_alive
    /\ stack[Len(stack)] \in {"chordmenu", "learn", "single"}
    /\ stack' = menu_pop(stack)
    /\ lm_active' = IF stack[Len(stack)] = "learn" THEN FALSE ELSE lm_active
    /\ scr_active' = IF stack[Len(stack)] = "single" THEN FALSE ELSE scr_active
    /\ in_pending' = IF stack[Len(stack)] = "chordmenu" THEN in_pending ELSE <<>>
    /\ ddti_pending' = IF stack[Len(stack)] = "chordmenu" THEN ddti_pending ELSE <<>>
    /\ dirty' = TRUE
    /\ loop_fault' = ""
    /\ UNCHANGED <<learned_mapping, current_trigger, learned_notes, lm_completed,
                   auto_continue_to_single, set_calls, launched, completion_time,
                   captured_trigger_note, captured_keyboard_note, learn_rest>>

\* Menu.update with the LearnMappingScreen on top, and the render after it.
\* msgs: what iter_ddti_all() returns; capture_enabled: the 40 ms guard
\* window is over; debounced: the last hit is at least _debounce_s old;
\* elapsed: the completion is at least one second old.
LearnUpdate(msgs, capture_enabled, debounced, elapsed) ==
    /\ loop_alive
    /\ stack[Len(stack)] = "learn"
    /\ ~back_press_start
    /\ lm_active
    /\ LET listening == capture_enabled /\ current_trigger < 4
           note == IF listening THEN learn_hit(msgs, learned_notes, debounced)
                   ELSE NoNote
           notes == IF note # NoNote THEN Append(learned_notes, note)
                    ELSE learned_notes
           complete == note # NoNote /\ current_trigger + 1 >= 4
           stored == complete /\ Len(notes) = 4
           leave == note = NoNote /\ lm_completed /\ elapsed
           launch == leave /\ auto_continue_to_single
       IN  /\ learned_notes' = notes
           /\ current_trigger' = IF note # NoNote THEN current_trigger + 1
                                 ELSE current_trigger
           /\ set_calls' = IF stored THEN set_calls + 1 ELSE set_calls
           /\ learned_mapping' = IF stored THEN notes ELSE learned_mapping
           /\ lm_completed' = IF stored THEN TRUE ELSE lm_completed
           /\ lm_active' = ~leave
           /\ launched' = IF launch THEN "single" ELSE launched
           /\ stack' = update_result(stack, leave, launch)
           /\ in_pending' = IF leave THEN <<>> ELSE in_pending
           /\ ddti_pending' = <<>>
    /\ dirty' = FALSE
    /\ loop_fault' = ""
    /\ single_same
    /\ UNCHANGED <<auto_continue_to_single, learn_rest>>

\* ------------------------------------------- VariableTriggerCaptureScreen
\* ui/menu.py, lines 511-629.  One call of update() is far shorter than the
\* 120 ms of _debounce_s: the first hit of a call that passes the velocity
\* test sets _last_ddti_hit_ts, and every later hit of the same call fails
\* the debounce test.

\* What no action of this section touches.
vt_rest == <<active, bucket, last_note_time, allow_duplicates, octave_down_lowest,
             last_sent_chord, learned_mapping, kit0_vars, clock, screen_vars,
             captured_trigger_note, captured_keyboard_note, pre_state, frames,
             played, loop_vars, foot_vars, filter_vars, learn_vars,
             footswitch_mode, router_vars>>

\* update, lines 553-567: the trigger note the loop over the DDTi messages
\* appends, NoNote if none.
trigger_hit(msgs, triggers, capture_enabled, debounced) ==
    LET hits == {i \in 1..Len(msgs) :
                    msgs[i].type = "note_on" /\ msgs[i].velocity >= min_vel}
    IN  IF hits = {} \/ ~capture_enabled \/ ~debounced THEN NoNote
        ELSE IF msgs[Min(hits)].note \notin Range(triggers) THEN msgs[Min(hits)].note
        ELSE NoNote

\* update, lines 573-575: the notes of the key presses among the keyboard
\* messages, in order.
key_presses(msgs) ==
    LET pressed == SelectSeq(msgs, LAMBDA m : m.type = "note_on" /\ m.velocity > 0)
    IN  [i \in 1..Len(pressed) |-> pressed[i].note]

\* A variant of the count of line 571 that always asks for one more note,
\* against which C34 is tested.
needed_keyboard_notes_one_more(triggers, keys) == 1

\* update, line 571: needed_keyboard_notes
needed_keyboard_notes(triggers, keys) == Len(triggers) - Len(keys)

\* VariableTriggerCaptureScreen._send_variable_trigger_change: every value
\* it leaves.  An exception of build_trigger_change_sysex is caught.
send_variable_trigger_change(triggers, keys, outcome) ==
    LET same == [history |-> history, current_state |-> current_state,
                 wire |-> NONE, push_note |-> ""]
    IN  IF triggers = <<>> \/ keys = <<>> THEN same
        ELSE IF Len(triggers) # Len(keys) THEN same
        ELSE IF get_current_state(current_state) = NONE THEN same
        ELSE LET msg == build_trigger_change_sysex(current_state, triggers, keys)
                 ok == midi_send(outcome)
                 recorded == [same EXCEPT
                                !.history = record_current_state(history, current_state),
                                !.push_note = push_path(history, MappingEntry(current_state))]
             IN  IF ~msg.ok
                 THEN [recorded EXCEPT
                         !.current_state = IF msg.state # NONE THEN msg.state
                                           ELSE current_state]
                 ELSE [recorded EXCEPT
                         !.current_state = msg.state,
                         !.wire = IF ok THEN msg.data ELSE NONE]

\* ChordCaptureMenuScreen._start_variable_trigger_capture: a new screen and
\* its activate().
VariableActivate ==
    /\ ~vt_active
    /\ vt_active' = TRUE
    /\ vt_captured_triggers' = <<>>
    /\ vt_keyboard_notes' = <<>>
    /\ trigger_capture_phase' = TRUE
    /\ vt_completed' = FALSE
    /\ vt_phases' = <<TRUE>>
    /\ vt_sent' = 0
    /\ in_pending' = <<>>
    /\ ddti_pending' = <<>>
    /\ ret' = NONE
    /\ undo_ret' = ""
    /\ err' = ""
    /\ push_note' = ""
    /\ wire' = NONE
    /\ UNCHANGED <<history, current_state, vt_rest>>

\* VariableTriggerCaptureScreen.on_key: BUTTON_LEFT deactivates, and
\* BUTTON_SELECT advances to the keyboard phase once a trigger is captured.
VariableKey(key) ==
    /\ vt_active
    /\ key \in {"left", "select"}
    /\ LET advance == /\ key = "select" /\ trigger_capture_phase
                      /\ vt_captured_triggers # <<>>
       IN  /\ vt_active' = (key # "left")
           /\ trigger_capture_phase' = IF advance THEN FALSE
                                       ELSE trigger_capture_phase
           /\ vt_phases' = IF advance THEN Append(vt_phases, FALSE) ELSE vt_phases
           /\ in_pending' = IF key = "left" THEN <<>> ELSE in_pending
           /\ ddti_pending' = IF key = "left" THEN <<>> ELSE ddti_pending
    /\ ret' = NONE
    /\ undo_ret' = ""
    /\ err' = ""
    /\ push_note' = ""
    /\ wire' = NONE
    /\ UNCHANGED <<history, current_state, vt_captured_triggers, vt_keyboard_notes,
                   vt_completed, vt_sent, vt_rest>>

\* VariableTriggerCaptureScreen.update followed by BaseCaptureScreen.update.
\* ddti_msgs and key_msgs: what iter_ddti_all() and iter_input() return if
\* they are called; capture_enabled, debounced, elapsed as in LearnUpdate.
VariableUpdate(ddti_msgs, key_msgs, outcome, capture_enabled, debounced, elapsed) ==
    /\ vt_active
    /\ LET hit == IF trigger_capture_phase
                  THEN trigger_hit(ddti_msgs, vt_captured_triggers,
                                   capture_enabled, debounced)
                  ELSE NoNote
           triggers == IF hit # NoNote THEN Append(vt_captured_triggers, hit)
                       ELSE vt_captured_triggers
           full == hit # NoNote /\ Len(triggers) >= 4
           listening == /\ ~trigger_capture_phase /\ capture_enabled
                        /\ needed_keyboard_notes(vt_captured_triggers,
                                                 vt_keyboard_notes) > 0
           presses == IF listening THEN key_presses(key_msgs) ELSE <<>>
           want == Max({1, Len(vt_captured_triggers) - Len(vt_keyboard_notes)})
           keys == vt_keyboard_notes \o Take(presses, want)
           sending == listening /\ Len(presses) >= want
           r == IF sending
                THEN send_variable_trigger_change(vt_captured_triggers, keys, outcome)
                ELSE [history |-> history, current_state |-> current_state,
                      wire |-> NONE, push_note |-> ""]
           leave == vt_completed /\ elapsed
       IN  /\ vt_captured_triggers' = triggers
           /\ trigger_capture_phase' = IF full THEN FALSE ELSE trigger_capture_phase
           /\ vt_phases' = IF full THEN Append(vt_phases, FALSE) ELSE vt_phases
           /\ vt_keyboard_notes' = keys
           /\ history' = r.history
           /\ current_state' = r.current_state
           /\ wire' = r.wire
           /\ push_note' = r.push_note
           /\ vt_sent' = IF r.wire # NONE THEN vt_sent + 1 ELSE vt_sent
           /\ vt_completed' = IF sending THEN TRUE ELSE vt_completed
           /\ vt_active' = ~leave
           /\ in_pending' = IF listening \/ leave THEN <<>> ELSE in_pending
           /\ ddti_pending' = IF trigger_capture_phase \/ sending \/ leave THEN <<>>
                              ELSE ddti_pending
    /\ ret' = NONE
    /\ undo_ret' = ""
    /\ err' = ""
    /\ UNCHANGED vt_rest

\* ------------------------------------------------------------ AlsaRouter
\* hw/alsa_router.py with one DDTi port and one external port, so that
\* _midi_filters has one key.  A MidiFilter object is the number of its
\* creation; 0 under the key is no entry.

\* What no action of this section touches.
router_rest == <<core_vars, loop_vars, foot_vars, filter_vars, learn_vars,
                 footswitch_mode, vt_vars>>

\* _create_filtered_connection: the entry under the key and the running
\* filters after it.  No test of the key precedes the creation of the
\* filter; the entry of a filter that started replaces the one before it.
create_filtered_connection(entry, running, id, started) ==
    IF started THEN [entry |-> id, running |-> running \cup {id}]
    ELSE [entry |-> entry, running |-> running]

\* _remove_filtered_connection: stop() and del of the filter under the key.
remove_filtered_connection(entry, running) ==
    IF entry # 0 THEN [entry |-> 0, running |-> running \ {entry}]
    ELSE [entry |-> entry, running |-> running]

\* _reconcile_routes for the DDTi thru routes, with the thru flag enabled.
\* present: discover_ports() lists the DDTi and the external port;
\* started: the mido names are found and MidiFilter.start() returns True.
reconcile_routes(enabled, present, started) ==
    IF ~present THEN [entry |-> midi_filters, running |-> running_filters]
    ELSE IF enabled
    THEN create_filtered_connection(midi_filters, running_filters,
                                    created_filters + 1, started)
    ELSE remove_filtered_connection(midi_filters, running_filters)

\* AlsaRouter._reconcile_routes: ensure_baseline_routes, the callers in the
\* screens, and main() every 5 seconds (app.py, lines 129-133).
ReconcileRoutes(present, started) ==
    /\ created_filters < MaxFilters
    /\ LET r == reconcile_routes(ddti_thru_enabled, present, started)
       IN  /\ midi_filters' = r.entry
           /\ running_filters' = r.running
           /\ created_filters' = IF present /\ ddti_thru_enabled
                                 THEN created_filters + 1 ELSE created_filters
    /\ UNCHANGED <<ddti_thru_enabled, delivered, router_rest>>

\* AlsaRouter.set_ddti_thru
SetDdtiThru(enabled, present, started) ==
    /\ created_filters < MaxFilters
    /\ ddti_thru_enabled' = enabled
    /\ LET r == IF ddti_thru_enabled = enabled
                THEN [entry |-> midi_filters, running |-> running_filters]
                ELSE reconcile_routes(enabled, present, started)
       IN  /\ midi_filters' = r.entry
           /\ running_filters' = r.running
           /\ created_filters' = IF ddti_thru_enabled # enabled /\ present /\ enabled
                                 THEN created_filters + 1 ELSE created_filters
    /\ UNCHANGED <<delivered, router_rest>>

\* AlsaRouter.cleanup_managed_connections: every filter of _midi_filters is
\* stopped and the dictionary is cleared.
CleanupManagedConnections ==
    /\ midi_filters' = 0
    /\ running_filters' = running_filters \ {midi_filters}
    /\ UNCHANGED <<ddti_thru_enabled, created_filters, delivered, router_rest>>

\* The DDTi sends one message that is no program change: every running
\* filter reads it from its own input port and forwards it.
RouterDdtiMessage ==
    /\ delivered' = Cardinality(running_filters)
    /\ UNCHANGED <<ddti_thru_enabled, midi_filters, running_filters,
                   created_filters, router_rest>>

\* ------------------------------------------------------------ Footswitch
\* Footswitch.pressed_edge: the record of _last, _last_change and the value
\* returned, from the level cur read at time now.
pressed_edge(cur, last, last_change, now) ==
    IF cur # last /\ (now - last_change) >= FOOTSWITCH_DEBOUNCE_MS
    THEN [last |-> cur, last_change |-> now, ret |-> cur]
    ELSE [last |-> cur, last_change |-> last_change, ret |-> FALSE]

\* The loop of main() polls the footswitch.
PressedEdge ==
    LET r == pressed_edge(fs_held, fs_last, fs_last_change, fs_now)
    IN  /\ fs_last' = r.last
        /\ fs_last_change' = r.last_change
        /\ fs_ret' = r.ret
        /\ fs_edges' = IF r.ret THEN fs_edges + 1 ELSE fs_edges
        /\ UNCHANGED <<fs_held, fs_now, fs_presses>>
        /\ UNCHANGED <<core_vars, loop_vars, filter_vars, ui_vars>>

\* The foot presses the switch; the release before it has been seen by a poll.
FsPress ==
    /\ ~fs_held /\ ~fs_last
    /\ fs_presses < MaxPresses
    /\ fs_held' = TRUE
    /\ fs_presses' = fs_presses + 1
    /\ UNCHANGED <<fs_last, fs_last_change, fs_now, fs_ret, fs_edges>>
    /\ UNCHANGED <<core_vars, loop_vars, filter_vars, ui_vars>>

\* The foot lets the switch go; the press has been seen by a poll.
FsRelease ==
    /\ fs_held /\ fs_last
    /\ fs_held' = FALSE
    /\ UNCHANGED <<fs_last, fs_last_change, fs_now, fs_ret, fs_presses, fs_edges>>
    /\ UNCHANGED <<core_vars, loop_vars, filter_vars, ui_vars>>

\* time.monotonic() moves on by d milliseconds.
FsAdvance(d) ==
    /\ fs_now + d <= MaxFsTime
    /\ fs_now' = fs_now + d
    /\ UNCHANGED <<fs_held, fs_last, fs_last_change, fs_ret, fs_presses, fs_edges>>
    /\ UNCHANGED <<core_vars, loop_vars, filter_vars, ui_vars>>

\* ------------------------------------------------------------ MidiFilter
\* A message is the name of its type.  A variant of the test of line 70 that
\* lets every message through, against which C29 is tested.
forwardable_all(msg) == TRUE

\* _filter_loop, line 70: msg.type != 'program_change'
forwardable(msg) == msg # "program_change"

\* MidiFilter.start, as AlsaRouter calls it once on a new filter.  opened =
\* FALSE: mido could not open a port, and start() calls stop() and returns.
FilterStart(opened) ==
    /\ ~f_running /\ f_thread = "none" /\ f_stop = "idle"
    /\ f_in_open' = opened
    /\ f_out_open' = opened
    /\ f_running' = opened
    /\ f_thread' = IF opened THEN "loop" ELSE "none"
    /\ f_stop' = IF opened THEN "idle" ELSE "returned"
    /\ UNCHANGED <<f_msg, f_in, f_forwarded, f_read>>
    /\ UNCHANGED <<core_vars, loop_vars, foot_vars, ui_vars>>

\* A device sends a message; it waits on the open input port.
FilterArrive(msg) ==
    /\ f_in_open
    /\ Len(f_in) + Len(f_read) < MaxArrived
    /\ f_in' = Append(f_in, msg)
    /\ UNCHANGED <<f_running, f_thread, f_msg, f_in_open, f_out_open, f_forwarded,
                   f_read, f_stop>>
    /\ UNCHANGED <<core_vars, loop_vars, foot_vars, ui_vars>>

\* _filter_loop, line 66: the test of the while loop.
FilterLoop ==
    /\ f_thread = "loop"
    /\ f_thread' = IF f_running /\ f_in_open /\ f_out_open THEN "iter" ELSE "dead"
    /\ UNCHANGED <<f_running, f_msg, f_in, f_in_open, f_out_open, f_forwarded,
                   f_read, f_stop>>
    /\ UNCHANGED <<core_vars, loop_vars, foot_vars, ui_vars>>

\* _filter_loop, line 68: the for loop asks iter_pending() for the next
\* message.  On a port that stop() has closed nothing is read: the call
\* raises (raises = TRUE, line 78 ends the thread) or yields no message.
FilterRead(raises) ==
    /\ f_thread = "iter"
    /\ IF f_in_open /\ f_in # <<>>
       THEN /\ f_msg' = Head(f_in)
            /\ f_in' = Tail(f_in)
            /\ f_read' = Append(f_read, Head(f_in))
            /\ f_thread' = "send"
       ELSE /\ f_thread' = IF ~f_in_open /\ raises THEN "dead" ELSE "sleep"
            /\ UNCHANGED <<f_msg, f_in, f_read>>
    /\ UNCHANGED <<f_running, f_in_open, f_out_open, f_forwarded, f_stop>>
    /\ UNCHANGED <<core_vars, loop_vars, foot_vars, ui_vars>>

\* _filter_loop, lines 70-71: the message read is sent on, or dropped.  With
\* self.output_port None, or the port closed, the send raises and line 78
\* ends the thread.
FilterSend ==
    /\ f_thread = "send"
    /\ f_msg' = ""
    /\ IF ~forwardable(f_msg)
       THEN f_thread' = "iter" /\ UNCHANGED f_forwarded
       ELSE IF f_out_open
       THEN f_thread' = "iter" /\ f_forwarded' = Append(f_forwarded, f_msg)
       ELSE f_thread' = "dead" /\ UNCHANGED f_forwarded
    /\ UNCHANGED <<f_running, f_in, f_in_open, f_out_open, f_read, f_stop>>
    /\ UNCHANGED <<core_vars, loop_vars, foot_vars, ui_vars>>

\* _filter_loop, line 76: the sleep ends.
FilterSleep ==
    /\ f_thread = "sleep"
    /\ f_thread' = "loop"
    /\ UNCHANGED <<f_running, f_msg, f_in, f_in_open, f_out_open, f_forwarded,
                   f_read, f_stop>>
    /\ UNCHANGED <<core_vars, loop_vars, foot_vars, ui_vars>>

\* MidiFilter.stop, line 43
StopBegin ==
    /\ f_stop = "idle"
    /\ f_running' = FALSE
    /\ f_stop' = "join"
    /\ UNCHANGED <<f_thread, f_msg, f_in, f_in_open, f_out_open, f_forwarded, f_read>>
    /\ UNCHANGED <<core_vars, loop_vars, foot_vars, ui_vars>>

\* MidiFilter.stop, lines 45-46: join(timeout=1.0) returns when the thread
\* has ended, or (timed_out) after a second with the thread where it is.
StopJoin(timed_out) ==
    /\ f_stop = "join"
    /\ f_thread \in {"none", "dead"} \/ timed_out
    /\ f_stop' = "close_in"
    /\ UNCHANGED <<f_running, f_thread, f_msg, f_in, f_in_open, f_out_open,
                   f_forwarded, f_read>>
    /\ UNCHANGED <<core_vars, loop_vars, foot_vars, ui_vars>>

\* MidiFilter.stop, lines 48-53
StopCloseInput ==
    /\ f_stop = "close_in"
    /\ f_in_open' = FALSE
    /\ f_stop' = "close_out"
    /\ UNCHANGED <<f_running, f_thread, f_msg, f_in, f_out_open, f_forwarded, f_read>>
    /\ UNCHANGED <<core_vars, loop_vars, foot_vars, ui_vars>>

\* MidiFilter.stop, lines 55-62: the output port is closed and stop() returns.
StopCloseOutput ==
    /\ f_stop = "close_out"
    /\ f_out_open' = FALSE
    /\ f_stop' = "returned"
    /\ UNCHANGED <<f_running, f_thread, f_msg, f_in, f_in_open, f_forwarded, f_read>>
    /\ UNCHANGED <<core_vars, loop_vars, foot_vars, ui_vars>>

\* ---------------------------------------------------------- environment
\* The keyboard sends one message; it waits on the input port until a drain.
KeySend(msg) ==
    /\ Len(in_pending) < MaxPending
    /\ played < MaxPlayed
    /\ in_pending' = Append(in_pending, msg)
    /\ played' = played + 1
    /\ UNCHANGED <<engine_vars, ddti_vars, clock, screen_vars, observed_vars, frames,
                   single_vars, hw_vars>>

\* The DDTi sends one message (a pad was hit); it waits on the DDTi input port.
DdtiSend(msg) ==
    /\ Len(ddti_pending) < MaxPending
    /\ played < MaxPlayed
    /\ ddti_pending' = Append(ddti_pending, msg)
    /\ played' = played + 1
    /\ UNCHANGED <<engine_vars, ddti_vars, in_pending, clock, screen_vars,
                   captured_trigger_note, captured_keyboard_note, observed_vars,
                   frames, hw_vars>>

\* The keyboard sends a burst of key presses at once, while the engine listens.
KeyBurst(notes) ==
    /\ active
    /\ in_pending = <<>>
    /\ in_pending' = [i \in 1..Len(notes) |-> NoteOn(notes[i], 64)]
    /\ UNCHANGED <<engine_vars, ddti_vars, clock, screen_vars, observed_vars,
                   frames, played,
                   single_vars, hw_vars>>

\* time.monotonic() moves on by d seconds.
Tick(d) ==
    /\ clock + d <= MaxClock
    /\ clock' = clock + d
    /\ UNCHANGED <<engine_vars, ddti_vars, in_pending, screen_vars, observed_vars,
                   frames, played,
                   single_vars, hw_vars>>

\* ------------------------------------------------------- specifications
\* ChordCapture.__init__ and DDTi.__init__, with the two policies read from
\* the configuration (app.py lines 43-45).
\* Menu.__init__ and the first render of main(): the home screen alone.
LoopInit ==
    /\ stack = <<"home">>
    /\ dirty = FALSE
    /\ back_press_start = FALSE
    /\ back_long_press_triggered = FALSE
    /\ loop_alive = TRUE
    /\ loop_fault = ""

\* Footswitch.__init__; the monotonic clock stands one debounce window past
\* its zero when the loop starts.
FootInit ==
    /\ fs_held = FALSE
    /\ fs_last = FALSE
    /\ fs_last_change = 0
    /\ fs_now = FOOTSWITCH_DEBOUNCE_MS
    /\ fs_ret = FALSE
    /\ fs_presses = 0
    /\ fs_edges = 0

\* MidiFilter.__init__: no ports, no thread, not running.
FilterInit ==
    /\ f_running = FALSE
    /\ f_thread = "none"
    /\ f_msg = ""
    /\ f_in = <<>>
    /\ f_in_open = FALSE
    /\ f_out_open = FALSE
    /\ f_forwarded = <<>>
    /\ f_read = <<>>
    /\ f_stop = "idle"

\* LearnMappingScreen.__init__ (no screen exists yet: the values a new one has).
LearnInit ==
    /\ lm_active = FALSE
    /\ current_trigger = 0
    /\ learned_notes = <<>>
    /\ lm_completed = FALSE
    /\ auto_continue_to_single = FALSE
    /\ set_calls = 0
    /\ launched = "none"

\* VariableTriggerCaptureScreen.__init__
VariableInit ==
    /\ vt_active = FALSE
    /\ vt_captured_triggers = <<>>
    /\ vt_keyboard_notes = <<>>
    /\ trigger_capture_phase = TRUE
    /\ vt_completed = FALSE
    /\ vt_phases = <<TRUE>>
    /\ vt_sent = 0

\* AlsaRouter.__init__: DDTi thru is on by default, no filter exists.
RouterInit ==
    /\ ddti_thru_enabled = TRUE
    /\ midi_filters = 0
    /\ running_filters = {}
    /\ created_filters = 0
    /\ delivered = 0

\* Config: the footswitch mode defaults to "all".
UiInit == LearnInit /\ footswitch_mode = "all" /\ VariableInit /\ RouterInit

HwInit == LoopInit /\ FootInit /\ FilterInit /\ UiInit

InitWith(dup_choices, octave_choices) ==
    /\ active = FALSE
    /\ bucket = <<>>
    /\ last_note_time = 0
    /\ allow_duplicates \in dup_choices
    /\ octave_down_lowest \in octave_choices
    /\ last_sent_chord = NONE
    /\ history = <<>>
    /\ learned_mapping = NONE
    /\ current_state = NONE
    /\ kit0_bulk = NONE
    /\ kit0_param = NONE
    /\ kit0_notes = NONE
    /\ in_pending = <<>>
    /\ clock = 1
    /\ scr_active = FALSE
    /\ completion_time = 0
    /\ captured_trigger_note = NoNote
    /\ captured_keyboard_note = NoNote
    /\ ddti_pending = <<>>
    /\ err = ""
    /\ ret = NONE
    /\ undo_ret = ""
    /\ pre_state = NONE
    /\ push_note = ""
    /\ wire = NONE
    /\ frames = 0
    /\ played = 0
    /\ HwInit

\* What the keyboard plays in the capture specification: five notes when
\* duplicates are dropped (a fifth distinct note can overfill the bucket), two
\* notes and two messages that are no key press when duplicates are kept.
CaptureNotes == {5, 40, 45, 50, 60}

RepeatNotes == {40, 60}

CaptureMessages ==
    IF allow_duplicates
    THEN {NoteOn(n, 64) : n \in RepeatNotes} \cup {NoteOn(40, 0), NoteOff(60)}
    ELSE {NoteOn(n, 64) : n \in CaptureNotes}

InitCapture == InitWith(BOOLEAN, {FALSE})

NextCapture ==
    \/ Activate
    \/ Deactivate
    \/ \E msg \in CaptureMessages : KeySend(msg)
    \/ \E outcome \in PortOutcomes : ProcessMidiInput(outcome)

SpecCapture == InitCapture /\ [][NextCapture]_vars

\* The undo specification: the keyboard plays whole chords, so every poll
\* that reads input completes a capture.
UndoChords == {<<36, 38, 42, 49>>, <<30, 38, 42, 49>>}

InitUndo == InitWith({FALSE}, {FALSE})

NextUndo ==
    \/ Activate
    \/ \E notes \in UndoChords : KeyBurst(notes)
    \/ \E outcome \in PortOutcomes : ProcessMidiInput(outcome)
    \/ RecordCurrentStateForUndo
    \/ \E outcome \in PortOutcomes : UndoLastMapping(outcome)

SpecUndo == InitUndo /\ [][NextUndo]_vars

\* The octave specification: the capture specification with the
\* octave-down-lowest policy switched on.
InitOctave == InitWith(BOOLEAN, {TRUE})

NextOctave ==
    \/ Activate
    \/ Deactivate
    \/ \E msg \in CaptureMessages : KeySend(msg)
    \/ \E outcome \in PortOutcomes : ProcessMidiInput(outcome)

SpecOctave == InitOctave /\ [][NextOctave]_vars

\* The timeout specification: two keys, played one message at a time while
\* the clock runs, so that a bucket can wait up to and past timeout_seconds.
TimeoutMessages == {NoteOn(40, 64), NoteOn(45, 64)}

InitTimeout == InitWith(BOOLEAN, {FALSE})

NextTimeout ==
    \/ Activate
    \/ \E msg \in TimeoutMessages : KeySend(msg)
    \/ \E outcome \in PortOutcomes : ProcessMidiInput(outcome)
    \/ Tick(1)

SpecTimeout == InitTimeout /\ [][NextTimeout]_vars

\* The frame specification: the three frame builders of DDTi, called with
\* valid and invalid arguments from an unknown state on.
FullInputs ==
    {<<36, 38, 42, 49>>, <<0, 127, 60, 60>>, <<36, 38, 42>>,
     <<36, 38, 42, 49, 51>>, <<36, 128, 42, 49>>, <<-1, 38, 42, 49>>}

ChangeMaps ==
    {<<>>, << <<0, 48>> >>, << <<2, 60>>, <<3, 0>> >>, << <<4, 50>> >>,
     << <<-1, 50>> >>, << <<1, 128>> >>, << <<0, 48>>, <<1, -1>> >>,
     << <<3, 127>>, <<4, 50>> >>}

TriggerBatches ==
    {<< <<36>>, <<48>> >>, << <<38, 99>>, <<61, 62>> >>, << <<99, 60>>, <<50, 38>> >>,
     << <<36, 38>>, <<48>> >>, << <<42, 42>>, <<51, 52>> >>, << <<49>>, <<200>> >>}

InitFrame == InitWith({FALSE}, {FALSE})

NextFrame ==
    \/ \E notes \in FullInputs : BuildFullSysex(notes)
    \/ \E trigger_notes \in ChangeMaps : BuildPartialSysex(trigger_notes)
    \/ \E batch \in TriggerBatches : BuildTriggerChangeSysex(batch[1], batch[2])

SpecFrame == InitFrame /\ [][NextFrame]_vars

\* The policy specification: the engine is switched on and off and its two
\* policies are set while the keyboard plays.
PolicyNotes == {40, 45, 50, 60}

InitPolicy == InitWith({FALSE}, {FALSE})

NextPolicy ==
    \/ Activate
    \/ Deactivate
    \/ \E allow \in BOOLEAN : SetAllowDuplicates(allow)
    \/ \E octave_down \in BOOLEAN : SetOctaveDownLowest(octave_down)
    \/ \E n \in PolicyNotes : KeySend(NoteOn(n, 64))
    \/ \E outcome \in PortOutcomes : ProcessMidiInput(outcome)

SpecPolicy == InitPolicy /\ [][NextPolicy]_vars

\* The loop specification: key events, screen updates and footswitch presses
\* reach the menu in any order, and a screen may raise where it is called.
InitLoop == InitWith({FALSE}, {FALSE})

NextLoop ==
    \/ \E ev \in {"press", "release"}, action \in {"left", "other"}, res \in KeyResults :
          HandleEvents(ev, action, res)
    \/ \E elapsed \in BOOLEAN, res \in UpdateResults : MenuUpdate(elapsed, res)
    \/ LoopFootswitch

SpecLoop == InitLoop /\ [][NextLoop]_vars

\* The footswitch specification: the loop with the footswitch mode of the
\* configuration, which the chord capture menu toggles.
InitPedal == InitWith({FALSE}, {FALSE})

NextPedal ==
    \/ \E ev \in {"press", "release"}, action \in {"left", "other"}, res \in KeyResults :
          HandleEvents(ev, action, res)
    \/ \E elapsed \in BOOLEAN, res \in UpdateResults : MenuUpdate(elapsed, res)
    \/ MainFootswitch
    \/ ToggleFootswitchMode
    \/ CaptureBack

SpecPedal == InitPedal /\ [][NextPedal]_vars

\* The learn specification: the chord capture menu starts Learn Mapping or
\* single-note capture, the pads are hit in any order, in batches of at most
\* MaxBatch messages per update.
MaxBatch == 2

LearnMsgs == {NoteOn(36, 64), NoteOn(38, 64), NoteOn(42, 64), NoteOn(49, 64),
              NoteOn(36, 4)}

LearnBatches == UNION {[1..n -> LearnMsgs] : n \in 0..MaxBatch}

InitLearn == InitWith({FALSE}, {FALSE})

NextLearn ==
    \/ OpenChordMenu
    \/ StartSingleNoteCapture
    \/ StartLearnMapping
    \/ MenuBack
    \/ \E msgs \in LearnBatches, capture_enabled, debounced, elapsed \in BOOLEAN :
          LearnUpdate(msgs, capture_enabled, debounced, elapsed)

SpecLearn == InitLearn /\ [][NextLearn]_vars

\* The variable-trigger specification: the device state is unknown or set,
\* pads are hit and keys are pressed in any order, and a capture that
\* recorded the state is undone from the menu before the screen is started
\* again.  With the state 50, 38, 42, 49 the pads send 50, 38 and 42, note 36
\* stands for the first slot by the default table as 50 does by the state,
\* and note 61 stands for no slot.  An update
\* draws only the inputs it reads: the DDTi messages and the debounce in the
\* trigger phase, the keyboard messages and the port in the keyboard phase.
VariableDdtiBatches ==
    {<<>>}
    \cup {<<NoteOn(n, 64)>> : n \in {36, 38, 42, 50, 61}}
    \cup {<<NoteOn(36, 4), NoteOn(n, 64)>> : n \in {38, 50}}
    \cup {<<NoteOn(n, 64), NoteOn(42, 64)>> : n \in {36, 61}}

VariableKeyBatches ==
    {<<>>, <<NoteOn(60, 64)>>, <<NoteOn(62, 64)>>, <<NoteOn(60, 0), NoteOn(62, 64)>>,
     <<NoteOn(60, 64), NoteOn(62, 64)>>, <<NoteOn(62, 64), NoteOn(60, 64), NoteOn(60, 64)>>}

InitVariable == InitWith({FALSE}, {FALSE})

NextVariable ==
    \/ \E notes \in {<<50, 38, 42, 49>>} :
          current_state = NONE /\ SetCurrentState(notes)
    \/ history = <<>> /\ VariableActivate
    \/ \E outcome \in PortOutcomes : ~vt_active /\ UndoLastMapping(outcome)
    \/ \E key \in {"left", "select"} : VariableKey(key)
    \/ \E ddti_msgs \in (IF trigger_capture_phase THEN VariableDdtiBatches ELSE {<<>>}),
          key_msgs \in (IF trigger_capture_phase THEN {<<>>} ELSE VariableKeyBatches),
          outcome \in (IF trigger_capture_phase THEN {"sent"} ELSE PortOutcomes),
          capture_enabled \in BOOLEAN,
          debounced \in (IF trigger_capture_phase THEN BOOLEAN ELSE {TRUE}),
          elapsed \in (IF vt_completed THEN BOOLEAN ELSE {FALSE}) :
          VariableUpdate(ddti_msgs, key_msgs, outcome, capture_enabled, debounced,
                         elapsed)

SpecVariable == InitVariable /\ [][NextVariable]_vars

\* The router specification: reconciles, thru switches, cleanups and DDTi
\* messages in any order, until MaxFilters filters have been created.

InitRouter == InitWith({FALSE}, {FALSE})

NextRouter ==
    \/ \E present, started \in BOOLEAN : ReconcileRoutes(present, started)
    \/ \E enabled, present, started \in BOOLEAN : SetDdtiThru(enabled, present, started)
    \/ CleanupManagedConnections
    \/ RouterDdtiMessage

SpecRouter == InitRouter /\ [][NextRouter]_vars

\* The footswitch specification: the switch is pressed and released while
\* the loop polls it, every change of level being seen by a poll before the
\* next one.
InitFoot == InitWith({FALSE}, {FALSE})

NextFoot ==
    \/ PressedEdge
    \/ FsPress
    \/ FsRelease
    \/ \E d \in {5, 20} : FsAdvance(d)

SpecFoot == InitFoot /\ [][NextFoot]_vars

\* The filter specification: one filter is started, messages arrive while
\* its thread runs, and stop() is called at any moment.
FilterMessages == {"note_on", "note_off", "program_change"}

InitFilter == InitWith({FALSE}, {FALSE})

NextFilter ==
    \/ \E opened \in BOOLEAN : FilterStart(opened)
    \/ \E msg \in FilterMessages : FilterArrive(msg)
    \/ FilterLoop
    \/ \E raises \in BOOLEAN : FilterRead(raises)
    \/ FilterSend
    \/ FilterSleep
    \/ StopBegin
    \/ \E timed_out \in BOOLEAN : StopJoin(timed_out)
    \/ StopCloseInput
    \/ StopCloseOutput

SpecFilter == InitFilter /\ [][NextFilter]_vars

\* The one-note specification: single-note capture after a 4-note capture
\* with duplicates allowed has learned [36, 49, 38, 36] (the notes 36, 49,
\* 36, 38 in pad order), so the trigger note 36 sits in two slots.
DoubledChord == <<36, 49, 38, 36>>

OneNotePads == {NoteOn(36, 64), NoteOn(38, 64), NoteOn(50, 64), NoteOn(36, 0)}

OneNoteKeys == {NoteOn(50, 64), NoteOn(38, 64), NoteOff(50)}

InitOneNote ==
    /\ active = FALSE
    /\ bucket = <<>>
    /\ last_note_time = 1
    /\ allow_duplicates = TRUE
    /\ octave_down_lowest = FALSE
    /\ last_sent_chord = DoubledChord
    /\ history = <<>>
    /\ learned_mapping = DoubledChord
    /\ current_state = DoubledChord
    /\ kit0_bulk = NONE
    /\ kit0_param = NONE
    /\ kit0_notes = NONE
    /\ in_pending = <<>>
    /\ clock = 1
    /\ scr_active = FALSE
    /\ completion_time = 0
    /\ captured_trigger_note = NoNote
    /\ captured_keyboard_note = NoNote
    /\ ddti_pending = <<>>
    /\ err = ""
    /\ ret = NONE
    /\ undo_ret = ""
    /\ pre_state = NONE
    /\ push_note = ""
    /\ wire = NONE
    /\ frames = 1
    /\ played = 0
    /\ HwInit

NextOneNote ==
    \/ SingleActivate
    \/ SingleBack
    \/ \E msg \in OneNotePads : DdtiSend(msg)
    \/ \E msg \in OneNoteKeys : KeySend(msg)
    \/ \E outcome \in PortOutcomes, capture_enabled \in BOOLEAN :
           SingleUpdate(outcome, capture_enabled)

SpecOneNote == InitOneNote /\ [][NextOneNote]_vars

\* The state specification: the device state is set directly, written by the
\* full and the partial builder, recorded for undo and restored by it.
StateInputs ==
    {<<36, 38, 42, 49>>, <<200, 38, 42, 49>>, <<36, 38, 300, 49>>, <<36, 38, 42>>}

StateChanges == {<< <<0, 48>> >>, << <<2, 60>> >>, << <<1, 128>> >>}

InitState == InitWith({FALSE}, {FALSE})

NextState ==
    \/ \E notes \in StateInputs : SetCurrentState(notes)
    \/ \E notes \in {<<40, 45, 50, 60>>, <<36, 128, 42, 49>>} : BuildFullSysex(notes)
    \/ \E trigger_notes \in StateChanges : BuildPartialSysex(trigger_notes)
    \/ Len(history) < MaxRecorded /\ RecordCurrentStateForUndo
    \/ \E outcome \in PortOutcomes : UndoLastMapping(outcome)

SpecState == InitState /\ [][NextState]_vars

\* The kit0 specification: dumps arrive from the module, and single notes of
\* the cached dump are patched, with the frame before a patch kept for undo.
KitDump(ns) ==
    [b \in 1..BulkLen |->
        IF b = 8 THEN 70 ELSE IF b = 9 THEN 1 ELSE IF b = 10 THEN 0
        ELSE IF b = 12 THEN ns[1] ELSE IF b = 18 THEN ns[2]
        ELSE IF b = 24 THEN ns[3] ELSE IF b = 30 THEN ns[4]
        ELSE b % 50]

ParamDump == [b \in 1..16 |-> IF b = 8 THEN 10 ELSE IF b = 9 THEN 2 ELSE 0]

\* A dump with note 36 in two slots (and in one byte that is no slot), a
\* parameter dump, and frames that are neither: wrong opcode, wrong length.
Kit0Frames ==
    {KitDump(<<36, 38, 36, 49>>), ParamDump, <<70, 1, 0>>,
     [KitDump(<<36, 38, 36, 49>>) EXCEPT ![9] = 2],
     [ParamDump EXCEPT ![8] = 70],
     Append(KitDump(<<36, 38, 36, 49>>), 0)}

PatchNotes == {36, 48}

InitKit0 == InitWith({FALSE}, {FALSE})

NextKit0 ==
    \/ \E data \in Kit0Frames : IngestSysexFrame(data)
    \/ \E msgs \in {<<>>} \cup {<<data>> : data \in Kit0Frames} : SyncUpdate(msgs)
    \/ ExtractKit0Notes
    \/ \E old_note \in PatchNotes, new_note \in PatchNotes :
           BuildKit0SingleNotePatch(old_note, new_note)
    \/ RecordKit0BulkForUndo
    \/ \E outcome \in PortOutcomes : UndoLastMapping(outcome)

SpecKit0 == InitKit0 /\ [][NextKit0]_vars

\* The single-note specification: the single-note screen and the edit calls
\* of DDTi, on an engine that is either fresh or has captured, sent and
\* learned one chord (36, 38, 42, 49 in pad order) and was deactivated.
LearnedChord == <<36, 49, 42, 38>>

PadHits == {NoteOn(36, 64), NoteOn(50, 64), NoteOn(36, 0)}

SingleKeys == {NoteOn(50, 64), NoteOff(50)}

SingleChanges == {<< <<0, 48>> >>, << <<4, 48>> >>}

SingleBatches == {<< <<36>>, <<48>> >>}

InitSingle ==
    \/ InitWith({FALSE}, {FALSE})
    \/ /\ active = FALSE
       /\ bucket = <<>>
       /\ last_note_time = 1
       /\ allow_duplicates = FALSE
       /\ octave_down_lowest = FALSE
       /\ last_sent_chord = LearnedChord
       /\ history = <<>>
       /\ learned_mapping = LearnedChord
       /\ current_state = LearnedChord
       /\ kit0_bulk = NONE
       /\ kit0_param = NONE
       /\ kit0_notes = NONE
       /\ in_pending = <<>>
       /\ clock = 1
       /\ scr_active = FALSE
       /\ completion_time = 0
       /\ captured_trigger_note = NoNote
       /\ captured_keyboard_note = NoNote
       /\ ddti_pending = <<>>
       /\ err = ""
       /\ ret = NONE
       /\ undo_ret = ""
       /\ pre_state = NONE
       /\ push_note = ""
       /\ wire = NONE
       /\ frames = 1
       /\ played = 0
       /\ HwInit

NextSingle ==
    \/ SingleActivate
    \/ SingleBack
    \/ \E msg \in PadHits : DdtiSend(msg)
    \/ \E msg \in SingleKeys : KeySend(msg)
    \/ \E outcome \in PortOutcomes, capture_enabled \in BOOLEAN :
           SingleUpdate(outcome, capture_enabled)
    \/ \E trigger_notes \in SingleChanges : BuildPartialSysex(trigger_notes)
    \/ \E batch \in SingleBatches : BuildTriggerChangeSysex(batch[1], batch[2])
    \/ \E old_note \in PatchNotes, new_note \in PatchNotes :
           BuildKit0SingleNotePatch(old_note, new_note)

SpecSingle == InitSingle /\ [][NextSingle]_vars

\* The edit-and-undo specification: after a completed 4-note capture of
\* LearnedChord, single notes are edited on the single-note screen and the
\* edits are undone.
InitEditUndo ==
    /\ active = FALSE
    /\ bucket = <<>>
    /\ last_note_time = 1
    /\ allow_duplicates = FALSE
    /\ octave_down_lowest = FALSE
    /\ last_sent_chord = LearnedChord
    /\ history = <<>>
    /\ learned_mapping = LearnedChord
    /\ current_state = LearnedChord
    /\ kit0_bulk = NONE
    /\ kit0_param = NONE
    /\ kit0_notes = NONE
    /\ in_pending = <<>>
    /\ clock = 1
    /\ scr_active = FALSE
    /\ completion_time = 0
    /\ captured_trigger_note = NoNote
    /\ captured_keyboard_note = NoNote
    /\ ddti_pending = <<>>
    /\ err = ""
    /\ ret = NONE
    /\ undo_ret = ""
    /\ pre_state = NONE
    /\ push_note = ""
    /\ wire = NONE
    /\ frames = 1
    /\ played = 0
    /\ HwInit

NextEditUndo ==
    \/ SingleActivate
    \/ SingleBack
    \/ \E msg \in {NoteOn(36, 64), NoteOn(49, 64)} : DdtiSend(msg)
    \/ \E msg \in {NoteOn(50, 64)} : KeySend(msg)
    \/ \E outcome \in PortOutcomes, capture_enabled \in BOOLEAN :
           SingleUpdate(outcome, capture_enabled)
    \/ \E outcome \in PortOutcomes : UndoLastMapping(outcome)

SpecEditUndo == InitEditUndo /\ [][NextEditUndo]_vars

\* The screen specification: the engine is driven only through the 4-note
\* capture screen, one update per tick of the main loop.  The keyboard plays
\* whole chords.
ScreenChords == {<<40, 45, 50, 60>>, <<41, 46, 51, 61>>}

InitScreen == InitWith({FALSE}, {FALSE})

NextScreen ==
    \/ ScreenActivate
    \/ ScreenBack
    \/ \E outcome \in PortOutcomes : ScreenUpdate(outcome)
    \/ \E notes \in ScreenChords : KeyBurst(notes)
    \/ Tick(1)

SpecScreen == InitScreen /\ [][NextScreen]_vars

\* ================================================================ claims
\* The key presses among the messages waiting on the input port.
Pressed ==
    LET on == SelectSeq(in_pending, LAMBDA m : m.type = "note_on" /\ m.velocity > 0)
    IN  [i \in 1..Len(on) |-> on[i].note]

\* How often n occurs in s.
Count(s, n) == Cardinality({i \in 1..Len(s) : s[i] = n})

\* C1: with duplicates disallowed the bucket never holds the same note value
\* twice, whatever the batching of the key presses over the polls.
C1_NoRepeatedNote ==
    ~allow_duplicates => \A n \in Range(bucket) : Count(bucket, n) = 1

\* C2: a completed capture whose send fails clears the bucket and leaves
\* get_current_state() as it was before the poll.
C2_FailedSendKeepsState ==
    [][\A o \in PortOutcomes :
          (active /\ ProcessMidiInput(o) /\ ret' # NONE /\ ~midi_send(o))
          => /\ bucket' = <<>>
             /\ get_current_state(current_state') = get_current_state(current_state)]_vars

\* C3: one activation of the 4-note capture screen sends at most one frame,
\* and once it is sent the bucket collects nothing more.
C3_OneFramePerActivation ==
    /\ frames <= 1
    /\ (frames = 1 /\ ret = NONE) => (bucket = <<>> /\ wire = NONE)

\* C4: after a completed capture with octave-down off, the device state is a
\* permutation of the resolved notes with slot0 <= slot3 <= slot2 <= slot1,
\* the frame on the wire carries it, and {40,45,50,60} is written as
\* [40,60,50,45].
C4_PadOrder ==
    (ret # NONE /\ ~octave_down_lowest) =>
        LET a == get_current_state(current_state)
        IN  /\ Len(a) = 4
            /\ \A n \in Range(a) \cup Range(ret) : Count(a, n) = Count(ret, n)
            /\ a[1] <= a[4] /\ a[4] <= a[3] /\ a[3] <= a[2]
            /\ wire # NONE => extract_slots(wire) = a
            /\ Range(ret) = {40, 45, 50, 60} => a = <<40, 60, 50, 45>>

C4_Witness ==
    /\ ret = <<40, 45, 50, 60>>
    /\ current_state = <<40, 60, 50, 45>>
    /\ extract_slots(wire) = <<40, 60, 50, 45>>

\* C5: a poll that fills the bucket to max_notes resolves, with duplicates
\* allowed, the first 4 notes in arrival order, and with duplicates
\* disallowed the 4 smallest distinct values in ascending order; with fewer
\* than 4 distinct values it sends nothing, keeps the bucket and stays active.
C5_Resolution ==
    [][\A o \in PortOutcomes :
          (active /\ ProcessMidiInput(o)) =>
             LET all == IF allow_duplicates THEN bucket \o Pressed
                        ELSE bucket \o SelectSeq(Pressed, LAMBDA n : n \notin Range(bucket))
                 V == Range(all)
                 sent == wire' # NONE \/ frames' # frames
             IN  /\ Len(all) < max_notes => (ret' = NONE /\ ~sent /\ bucket' = all)
                 /\ (Len(all) >= max_notes /\ allow_duplicates) =>
                        /\ ret' = SubSeq(all, 1, max_notes)
                        /\ bucket' = <<>>
                        /\ midi_send(o) => wire' # NONE
                 /\ (Len(all) >= max_notes /\ ~allow_duplicates /\ Cardinality(V) >= max_notes) =>
                        /\ Len(ret') = max_notes
                        /\ \A i \in 1..(max_notes - 1) : ret'[i] < ret'[i + 1]
                        /\ Range(ret') \subseteq V
                        /\ \A n \in V \ Range(ret') : n > ret'[max_notes]
                        /\ bucket' = <<>>
                        /\ midi_send(o) => wire' # NONE
                 /\ (Len(all) >= max_notes /\ ~allow_duplicates /\ Cardinality(V) < max_notes) =>
                        /\ ret' = NONE
                        /\ ~sent
                        /\ bucket' = all
                        /\ active'
                        /\ current_state' = current_state]_vars

C5_Witness ==
    /\ ~allow_duplicates
    /\ active
    /\ Len(bucket) >= max_notes
    /\ ret = NONE
    /\ frames = 0

\* A step that pushes a mapping snapshot of the current device state: a
\* completed capture, or record_current_state_for_undo, from a known state.
PushesSnapshot ==
    /\ get_current_state(current_state) # NONE
    /\ \/ RecordCurrentStateForUndo
       \/ \E o \in PortOutcomes : active /\ ProcessMidiInput(o) /\ ret' # NONE

Snapshot == [type |-> "mapping", state |-> get_current_state(current_state)]

\* C6: after a completed capture that started from the known state P, an
\* undo whose send succeeds returns True, sends a frame whose four slot bytes
\* decode to P, and leaves the known device state equal to P.
C6_UndoRestores ==
    [][\A o \in PortOutcomes :
          (ret # NONE /\ pre_state # NONE /\ UndoLastMapping(o) /\ midi_send(o))
          => /\ undo_ret' = "True"
             /\ wire' # NONE
             /\ extract_slots(wire') = pre_state
             /\ get_current_state(current_state') = pre_state]_vars

C6_Witness ==
    /\ undo_ret = "True"
    /\ pre_state # NONE
    /\ current_state = pre_state
    /\ extract_slots(wire) = pre_state
    /\ learned_mapping # pre_state
    /\ history # <<>>

\* C7: an undo whose top entry is a kit0 snapshot B, with a successful send,
\* puts B back as the cached kit0 bulk frame, sends B and returns True.
C7_Kit0UndoRestores ==
    [][\A o \in PortOutcomes :
          (/\ history # <<>>
           /\ history[Len(history)].type = "kit0"
           /\ UndoLastMapping(o)
           /\ midi_send(o))
          => /\ kit0_bulk' = history[Len(history)].bulk
             /\ wire' = history[Len(history)].bulk
             /\ undo_ret' = "True"]_vars

\* C8: a completed capture that starts from a known state P leaves Mapping(P)
\* on top of the history; from an unknown state it leaves the history alone.
C8_SnapshotBeforeWrite ==
    [][\A o \in PortOutcomes :
          (active /\ ProcessMidiInput(o) /\ ret' # NONE) =>
             IF get_current_state(current_state) # NONE
             THEN /\ history' # <<>>
                  /\ history'[Len(history')] = Snapshot
             ELSE history' = history]_vars

C8_Witness ==
    /\ ret # NONE
    /\ pre_state # NONE
    /\ current_state # pre_state
    /\ history # <<>>
    /\ history[Len(history)] = [type |-> "mapping", state |-> pre_state]

\* C9: the history never holds more than undo_limit entries, and a push of a
\* new entry onto a full history drops the oldest entry and keeps the rest in
\* order under the new one.
C9_BoundedHistory ==
    [][/\ Len(history') <= undo_limit
       /\ (/\ PushesSnapshot
           /\ Len(history) = undo_limit
           /\ history[Len(history)] # Snapshot)
          => history' = Tail(history) \o <<Snapshot>>]_vars

C9_Witness ==
    /\ push_note = "evicted"
    /\ Len(history) = undo_limit
    /\ history[undo_limit - 1] # history[undo_limit]

\* C10: a push of an entry equal to the top leaves the history unchanged, and
\* no two adjacent history entries are ever equal.
C10_NoAdjacentDuplicates ==
    [][/\ \A i \in 1..(Len(history') - 1) : history'[i] # history'[i + 1]
       /\ (/\ PushesSnapshot
           /\ history # <<>>
           /\ history[Len(history)] = Snapshot)
          => history' = history]_vars

C10_Witness ==
    /\ push_note = "suppressed"
    /\ history # <<>>
    /\ history[Len(history)] = [type |-> "mapping", state |-> current_state]

\* The four slot bytes of a frame, read at offsets 11, 17, 23, 29 and masked
\* to 7 bits.
SlotBytes(data) == <<data[12] % 128, data[18] % 128, data[24] % 128, data[30] % 128>>

ValidNote(n) == 0 <= n /\ n <= 127

ValidChanges(C) ==
    \A i \in 1..Len(C) : C[i][1] \in 0..3 /\ ValidNote(C[i][2])

\* merge(B, C): slot i takes the value C gives it, or else keeps B's.
Merge(B, C) ==
    [i \in 1..4 |->
        IF \E j \in 1..Len(C) : C[j][1] = i - 1
        THEN C[CHOOSE j \in 1..Len(C) : C[j][1] = i - 1][2]
        ELSE B[i]]

\* C12: from a known state B, build_partial_sysex(C) with valid indices and
\* values returns the bytes of build_full_sysex(merge(B, C)) and leaves the
\* known state merge(B, C).
C12_PartialIsFullOfMerge ==
    [][\A C \in ChangeMaps :
          (current_state # NONE /\ ValidChanges(C) /\ BuildPartialSysex(C))
          => /\ err' = ""
             /\ ret' = build_full_sysex(Merge(current_state, C)).data
             /\ current_state' = Merge(current_state, C)
             /\ current_state' = build_full_sysex(Merge(current_state, C)).state]_vars

C12_Witness ==
    /\ err = ""
    /\ current_state = <<36, 38, 60, 0>>
    /\ ret = build_full_sysex(<<36, 38, 60, 0>>).data

\* Valid assignments over the ends and the middle of the note range.
SlotValues == {0, 1, 36, 100, 127}

SlotAssignments == [1..4 -> SlotValues]

\* C13: the slot bytes of the frame build_full_sysex(S) returns are S, for
\* every valid assignment S, and the slot bytes of every frame a builder
\* returned are the known state it left.
C13_RoundTrip ==
    /\ \A S \in SlotAssignments :
          /\ build_full_sysex(S).ok
          /\ SlotBytes(build_full_sysex(S).data) = S
    /\ ret # NONE => SlotBytes(ret) = current_state

C13_Witness ==
    /\ ret # NONE
    /\ current_state = <<0, 127, 60, 60>>
    /\ SlotBytes(ret) = <<0, 127, 60, 60>>

\* C14: build_full_sysex with a wrong length or a value outside [0,127], and
\* build_partial_sysex with an unknown state, an index outside [0,4) or a
\* value outside [0,127], raise, return no frame and leave the known state
\* as it was.
C14_RejectionsChangeNothing ==
    [][/\ \A notes \in FullInputs :
             (/\ Len(notes) # 4 \/ \E i \in 1..Len(notes) : ~ValidNote(notes[i])
              /\ BuildFullSysex(notes))
             => (err' = "ValueError" /\ ret' = NONE /\ current_state' = current_state)
       /\ \A C \in ChangeMaps :
             (/\ current_state = NONE \/ ~ValidChanges(C)
              /\ BuildPartialSysex(C))
             => (err' = "ValueError" /\ ret' = NONE /\ current_state' = current_state)]_vars

C14_Witness ==
    /\ err = "ValueError"
    /\ ret = NONE
    /\ current_state = <<48, 38, 42, 49>>

\* The slot a hit trigger note names: its first position in the known state,
\* else its entry in {36:0, 38:1, 42:2, 49:3}, else none (-1).
SlotOf(B, t) ==
    IF \E i \in 1..4 : B[i] = t
    THEN (CHOOSE i \in 1..4 : B[i] = t /\ \A k \in 1..(i - 1) : B[k] # t) - 1
    ELSE CASE t = 36 -> 0 [] t = 38 -> 1 [] t = 42 -> 2 [] t = 49 -> 3 [] OTHER -> -1

\* C20: build_trigger_change_sysex applies every pair whose trigger note names
\* a slot, skips the others, and changes no other slot; a slot named by
\* several pairs takes the note of the last.
C20_TriggerChange ==
    [][\A batch \in TriggerBatches :
          LET t == batch[1]
              n == batch[2]
              B == current_state
              hits(i) == {j \in 1..Len(t) : SlotOf(B, t[j]) = i - 1}
              expected == [i \in 1..4 |->
                             IF hits(i) = {} THEN B[i]
                             ELSE n[CHOOSE j \in hits(i) : \A k \in hits(i) : k <= j]]
          IN  (/\ B # NONE
               /\ Len(t) = Len(n)
               /\ \A j \in 1..Len(n) : ValidNote(n[j])
               /\ BuildTriggerChangeSysex(t, n))
              => /\ err' = ""
                 /\ current_state' = expected
                 /\ SlotBytes(ret') = expected]_vars

C20_Witness ==
    /\ err = ""
    /\ ret # NONE
    /\ current_state = <<0, 127, 61, 60>>

\* C15: a poll of the active engine first clears the bucket exactly when it is
\* non-empty and more than timeout_seconds passed since the last accepted
\* note; the notes of the same poll then go into the bucket that is left, the
\* timer restarts only when a note is accepted, no error is raised and the
\* engine stays active.
C15_Timeout ==
    [][\A o \in PortOutcomes :
          (active /\ ProcessMidiInput(o)) =>
             LET expired == bucket # <<>> /\ clock - last_note_time > timeout_seconds
                 kept == IF expired THEN <<>> ELSE bucket
                 new == IF allow_duplicates THEN Pressed
                        ELSE SelectSeq(Pressed, LAMBDA n : n \notin Range(kept))
             IN  /\ active'
                 /\ err' = ""
                 /\ last_note_time' = IF new # <<>> THEN clock ELSE last_note_time
                 /\ Len(kept \o new) < max_notes => bucket' = kept \o new
                 /\ (expired /\ new = <<>>) => (bucket' = <<>> /\ ret' = NONE)
                 /\ (~expired /\ ret' = NONE) => SubSeq(bucket', 1, Len(bucket)) = bucket]_vars

C15_Witness ==
    /\ active
    /\ bucket = <<>>
    /\ frames = 0
    /\ last_note_time > 0
    /\ clock - last_note_time > timeout_seconds
    /\ ret = NONE

\* C16: with octave-down-lowest on, a completed capture writes max(0, lowest -
\* 12) to slot 0 and the three other resolved notes to slots 1..3 as highest,
\* 2nd-highest, 3rd-highest; every slot is in [0,127]; {5,45,50,60} is
\* written as [0,60,50,45].
C16_OctaveDown ==
    (ret # NONE /\ octave_down_lowest) =>
        LET a == get_current_state(current_state)
            lowest == CHOOSE n \in Range(ret) : \A k \in Range(ret) : n <= k
        IN  /\ Len(a) = 4
            /\ a[1] = IF lowest - 12 < 0 THEN 0 ELSE lowest - 12
            /\ \A n \in Range(ret) :
                  Count(<<lowest, a[2], a[3], a[4]>>, n) = Count(ret, n)
            /\ lowest <= a[4] /\ a[4] <= a[3] /\ a[3] <= a[2]
            /\ \A i \in 1..4 : ValidNote(a[i])
            /\ wire # NONE => SlotBytes(wire) = a
            /\ Range(ret) = {5, 45, 50, 60} => a = <<0, 60, 50, 45>>

C16_Witness ==
    /\ octave_down_lowest
    /\ ret = <<5, 45, 50, 60>>
    /\ current_state = <<0, 60, 50, 45>>
    /\ SlotBytes(wire) = <<0, 60, 50, 45>>

IsKitDump(data) ==
    Len(data) = 76 /\ data[8] = 70 /\ data[9] = 1 /\ data[10] = 0

IsParamDump(data) ==
    Len(data) = 16 /\ data[8] = 10 /\ data[9] = 2 /\ data[10] = 0

\* C17: once a 76-byte kit dump has been ingested, get_current_state() returns
\* the dump's four slot values, and the sync screen's first dump leaves a
\* snapshot of them for undo.
C17_DumpMakesStateKnown ==
    [][\A data \in Kit0Frames :
          (IsKitDump(data) /\ (IngestSysexFrame(data) \/ SyncUpdate(<<data>>)))
          => get_current_state(current_state') = SlotBytes(data)]_vars

\* C18: build_kit0_single_note_patch(old, new) on a cached dump writes new at
\* every note offset that held old, keeps every other byte, caches and
\* returns the result; with no dump, old in no slot, or old = new, it returns
\* None and keeps the cached frame.
C18_Kit0Patch ==
    [][\A old \in PatchNotes, new \in PatchNotes :
          BuildKit0SingleNotePatch(old, new) =>
             LET B == kit0_bulk
                 fails == \/ B = NONE
                          \/ old \notin Range(SlotBytes(B))
                          \/ old = new
             IN  IF fails
                 THEN ret' = NONE /\ kit0_bulk' = B /\ err' = ""
                 ELSE /\ ret' = kit0_bulk'
                      /\ Len(kit0_bulk') = Len(B)
                      /\ \A b \in 1..Len(B) :
                            kit0_bulk'[b] = IF b \in {12, 18, 24, 30} /\ B[b] = old
                                            THEN new ELSE B[b]]_vars

C18_Witness ==
    /\ kit0_bulk = KitDump(<<48, 38, 48, 49>>)
    /\ ret = kit0_bulk
    /\ kit0_bulk[36] = 36

\* C19: ingest_sysex_frame caches a 76-byte frame with bytes 7,8,9 = 70,1,0 as
\* the bulk dump and nothing else as such; a 16-byte frame with bytes 7,8,9 =
\* 10,2,0 becomes the parameter dump and leaves bulk and notes alone; any
\* other frame changes nothing; no frame raises an error.
C19_Ingest ==
    [][\A data \in Kit0Frames :
          IngestSysexFrame(data) =>
             /\ err' = ""
             /\ IsKitDump(data) => (kit0_bulk' = data /\ kit0_param' = kit0_param)
             /\ ~IsKitDump(data) => (kit0_bulk' = kit0_bulk /\ kit0_notes' = kit0_notes)
             /\ IsParamDump(data) => kit0_param' = data
             /\ ~IsParamDump(data) => kit0_param' = kit0_param]_vars

C19_Witness ==
    /\ kit0_param = ParamDump
    /\ kit0_bulk = KitDump(<<48, 38, 48, 49>>)
    /\ kit0_notes = <<48, 38, 48, 49>>
    /\ ret = NONE

\* No full write, no ingested dump, no learned mapping.
Fresh == current_state = NONE /\ kit0_bulk = NONE /\ learned_mapping = NONE

\* C11: on a fresh engine every single-note or partial edit path fails:
\* build_partial_sysex and build_trigger_change_sysex raise,
\* build_kit0_single_note_patch returns None, the single-note screen selects
\* no trigger and reads no key; none of them sends even when the port would
\* take a frame, and the device state stays unknown.
C11_FreshEditsFail ==
    [][Fresh =>
          /\ \A C \in SingleChanges :
                BuildPartialSysex(C) => (err' = "ValueError" /\ ret' = NONE)
          /\ \A batch \in SingleBatches :
                BuildTriggerChangeSysex(batch[1], batch[2])
                => (err' = "ValueError" /\ ret' = NONE)
          /\ \A old \in PatchNotes, new \in PatchNotes :
                BuildKit0SingleNotePatch(old, new) => (err' = "" /\ ret' = NONE)
          /\ \A en \in BOOLEAN :
                SingleUpdate("sent", en)
                => /\ captured_trigger_note' = NoNote
                   /\ captured_keyboard_note' = NoNote
                   /\ in_pending' = in_pending
                   /\ completion_time' = 0
                   /\ history' = history
          /\ \/ \E C \in SingleChanges : BuildPartialSysex(C)
             \/ \E batch \in SingleBatches : BuildTriggerChangeSysex(batch[1], batch[2])
             \/ \E old \in PatchNotes, new \in PatchNotes :
                   BuildKit0SingleNotePatch(old, new)
             \/ \E en \in BOOLEAN : SingleUpdate("sent", en)
             => (wire' = NONE /\ Fresh')]_vars

C11_Witness ==
    /\ Fresh
    /\ scr_active
    /\ ddti_pending = <<>>
    /\ in_pending = <<NoteOn(50, 64)>>
    /\ played >= 3
    /\ captured_trigger_note = NoNote
    /\ wire = NONE
\* C21: the device state, when known, is 4 values each in [0,127], and the
\* slot bytes of every frame built from it are in [0,127].
\* set_current_state checks the length of its argument and stores the values
\* as they are, so C21_StateInRange does not hold of SpecState.
C21_StateInRange ==
    /\ current_state # NONE =>
          /\ Len(current_state) = 4
          /\ \A i \in 1..Len(current_state) : current_state[i] \in 0..127
    /\ ret # NONE => \A i \in 1..4 : SlotBytes(ret)[i] \in 0..127

\* C22: with allow_duplicates = False a completed 4-note capture assigns four
\* pairwise-distinct slot values, in the state it leaves and in the frame it
\* sends, whatever the batching of the notes and with octave-down applied.
C22_DistinctSlots ==
    (ret # NONE /\ ~allow_duplicates) =>
        /\ Len(current_state) = 4
        /\ \A i, j \in 1..4 : i # j => current_state[i] # current_state[j]
        /\ wire # NONE =>
              \A i, j \in 1..4 : i # j => SlotBytes(wire)[i] # SlotBytes(wire)[j]

C22_Witness ==
    /\ ~allow_duplicates /\ octave_down_lowest /\ played = MaxPlayed
    /\ ret = <<40, 45, 50, 60>> /\ wire # NONE
    /\ current_state = <<28, 60, 50, 45>>

\* C23: deactivate() can be called in every state; after it active is False
\* and the bucket is empty; called again it changes nothing of the engine or
\* the device; while the engine is inactive the bucket is empty, and a poll
\* returns None, adds nothing to the bucket, sends no frame and leaves the
\* engine inactive.
C23_Deactivate ==
    /\ [](ENABLED Deactivate)
    /\ [](~active => bucket = <<>>)
    /\ [][/\ Deactivate => (~active' /\ bucket' = <<>>)
          /\ (~active /\ Deactivate) =>
                UNCHANGED <<engine_vars, ddti_vars, kit0_vars, frames>>
          /\ \A o \in PortOutcomes :
                (~active /\ ProcessMidiInput(o)) =>
                    /\ ret' = NONE /\ wire' = NONE /\ frames' = frames
                    /\ bucket' = <<>> /\ ~active'
                    /\ UNCHANGED <<ddti_vars, history, learned_mapping>>]_vars

C23_Witness ==
    /\ ~active /\ bucket = <<>> /\ in_pending = <<>> /\ played = 3
    /\ current_state = NONE /\ last_note_time = 1

\* C24: activate() leaves the engine active with an empty bucket and an empty
\* input port, and a poll of the active engine puts into the bucket and into
\* the chord only notes of the bucket and of the input pending at the poll: a
\* note_on that arrived before activate() is in neither.
C24_ActivateDiscards ==
    [][/\ Activate => (active' /\ bucket' = <<>> /\ in_pending' = <<>>)
       /\ \A o \in PortOutcomes :
             (active /\ ProcessMidiInput(o)) =>
                 Range(bucket') \cup Range(ret') \subseteq
                     Range(bucket) \cup Range(Pressed)]_vars

C24_Witness ==
    /\ active /\ played = MaxPlayed /\ ret = <<40, 45, 50, 60>>
    /\ ~allow_duplicates /\ frames = 1 /\ history = <<>>

\* C25: set_allow_duplicates and set_octave_down_lowest store the policy and
\* leave the bucket empty, so the notes of a bucket were all collected under
\* the policies in force.
C25_PolicyClearsBucket ==
    [][/\ \A allow \in BOOLEAN :
             SetAllowDuplicates(allow) => (bucket' = <<>> /\ allow_duplicates' = allow)
       /\ \A octave_down \in BOOLEAN :
             SetOctaveDownLowest(octave_down) =>
                 (bucket' = <<>> /\ octave_down_lowest' = octave_down)
       /\ (allow_duplicates' # allow_duplicates
              \/ octave_down_lowest' # octave_down_lowest) => bucket' = <<>>]_vars

C25_Witness ==
    /\ allow_duplicates /\ octave_down_lowest /\ active
    /\ bucket = <<>> /\ ret = NONE /\ played = 3 /\ in_pending = <<>>
    /\ last_note_time = 1 /\ frames = 0

\* C26: undo_last_mapping on an empty history returns False, sends no frame
\* and leaves history, device state and kit0 cache as they were; and whenever
\* it returns True, the history held an entry and the restore frame went out
\* through a port that took it.
C26_UndoReports ==
    [][\A o \in PortOutcomes :
          UndoLastMapping(o) =>
             /\ history = <<>> =>
                   /\ undo_ret' = "False"
                   /\ wire' = NONE
                   /\ frames' = frames
                   /\ UNCHANGED <<history, ddti_vars, kit0_vars, last_sent_chord>>
             /\ undo_ret' = "True" =>
                   /\ history # <<>>
                   /\ o = "sent"
                   /\ wire' # NONE
                   /\ SlotBytes(wire') = history[Len(history)].state]_vars

C26_Witness ==
    /\ undo_ret = "False" /\ history = <<>> /\ current_state = NONE
    /\ wire = NONE /\ active

\* C27: an exception raised in a tick of the main loop, by the top screen's
\* update or by the handling of a key event, is caught: the loop goes on and
\* the screen stack is as it was.
\* Menu.handle_events calls on_key outside any try and main() catches
\* KeyboardInterrupt alone, so C27_LoopSurvives does not hold of SpecLoop.
C27_LoopSurvives ==
    [][loop_fault' # "" => (loop_alive' /\ stack' = stack)]_vars

\* C28: pressed_edge() has returned True once for every press of the switch
\* that a poll has read, and never more often than the switch was pressed.
\* A press read inside the debounce window of the change before it is stored
\* in _last without being reported, so C28_OncePerPress does not hold of
\* SpecFoot.
C28_OncePerPress ==
    /\ fs_edges <= fs_presses
    /\ (fs_held /\ fs_last) => fs_edges = fs_presses

\* The messages of s that are no program change, in order.
NonPC(s) == SelectSeq(s, LAMBDA m : m # "program_change")

IsPrefix(a, b) == Len(a) <= Len(b) /\ SubSeq(b, 1, Len(a)) = a

C37_BucketBelowTarget ==
    /\ allow_duplicates => Len(bucket) < max_notes
    /\ ~allow_duplicates => Cardinality(Range(bucket)) < max_notes
    /\ bucket_needs(bucket, allow_duplicates) >= 1

C37_Witness ==
    /\ ~allow_duplicates /\ active /\ ret = NONE /\ in_pending = <<>>
    /\ Len(bucket) = MaxPlayed /\ bucket_needs(bucket, allow_duplicates) = 1

\* C39: a cached kit0 note list is the bytes of the cached kit0 bulk frame at
\* offsets 11, 17, 23, 29, each masked to 7 bits.
C39_NotesMatchBulk ==
    kit0_notes # NONE =>
        /\ kit0_bulk # NONE
        /\ Len(kit0_bulk) = BulkLen
        /\ kit0_notes = <<kit0_bulk[12] % 128, kit0_bulk[18] % 128,
                          kit0_bulk[24] % 128, kit0_bulk[30] % 128>>

C39_Witness ==
    /\ kit0_notes = <<36, 38, 36, 49>>
    /\ history # <<>> /\ history[1].type = "kit0" /\ history[1].bulk[12] = 48

\* C35: once a 4-note capture has set both, the learned mapping equals the
\* known device state after any single-note edits and undos, whatever the
\* port did.
\* undo_last_mapping restores the device state and never assigns
\* _learned_mapping, and a single-note edit whose send fails leaves the
\* state written without the mapping, so C35_LearnedIsState does not hold of
\* SpecEditUndo.
C35_LearnedIsState ==
    (learned_mapping # NONE /\ current_state # NONE) => learned_mapping = current_state

\* C32: a footswitch press while a capture is in progress aborts it instead
\* of starting another, in both footswitch modes, so that at most one capture
\* screen (4-note or single-note) is on the menu stack at any time.
C32_OneCaptureScreen ==
    Cardinality({i \in 1..Len(stack) : stack[i] \in {"capture", "single"}}) <= 1

\* C31: when Learn Mapping was started by Single Note Capture and its
\* completion delay has elapsed, the update removes the Learn Mapping screen
\* and leaves an active SingleNoteCaptureScreen on top of the menu stack.
C31_AutoLaunch ==
    [][\A msgs \in LearnBatches, capture_enabled, debounced \in BOOLEAN :
          (/\ LearnUpdate(msgs, capture_enabled, debounced, TRUE)
           /\ lm_completed /\ auto_continue_to_single)
          => /\ "learn" \notin Range(stack')
             /\ stack'[Len(stack')] = "single"
             /\ launched' = "single"]_vars

\* C33: Learn Mapping learns the hits in order and skips a note it already
\* has: the learned notes are pairwise distinct, current_trigger is their
\* count and at most 4, and set_learned_mapping has been called once, with
\* the four notes, exactly when four notes have been learned in this run.
C33_LearnOrder ==
    /\ current_trigger = Len(learned_notes)
    /\ current_trigger <= 4
    /\ \A i, j \in 1..Len(learned_notes) :
          i # j => learned_notes[i] # learned_notes[j]
    /\ set_calls = (IF Len(learned_notes) = 4 THEN 1 ELSE 0)
    /\ set_calls = 1 => learned_mapping = learned_notes

C33_Witness ==
    /\ set_calls = 1
    /\ lm_active
    /\ learned_notes = <<38, 36, 49, 42>>
    /\ learned_mapping = <<38, 36, 49, 42>>

\* C34: in variable-trigger capture the phase goes from trigger collection
\* to keyboard collection and never back within one activation; the captured
\* triggers are pairwise distinct and at most 4; the keyboard notes are never
\* more than the triggers; at most one frame is sent per activation, only
\* with as many keyboard notes as triggers and a known device state; and the
\* frame sent carries, in the slot of the i-th trigger, the i-th keyboard
\* note (the last such note where several triggers stand for one slot), and
\* the known state in every slot no captured trigger stands for.
C34_VariableTrigger ==
    /\ [](/\ vt_phases \in {<<TRUE>>, <<TRUE, FALSE>>}
          /\ trigger_capture_phase = vt_phases[Len(vt_phases)]
          /\ Len(vt_captured_triggers) <= 4
          /\ \A i, j \in 1..Len(vt_captured_triggers) :
                i # j => vt_captured_triggers[i] # vt_captured_triggers[j]
          /\ Len(vt_keyboard_notes) <= Len(vt_captured_triggers)
          /\ vt_sent <= 1
          /\ vt_sent = 1 => /\ Len(vt_keyboard_notes) = Len(vt_captured_triggers)
                            /\ current_state # NONE)
    /\ [][vt_sent' = vt_sent + 1 =>
            /\ current_state # NONE
            /\ Len(vt_keyboard_notes') = Len(vt_captured_triggers')
            /\ \A i \in 1..Len(vt_captured_triggers') :
                  LET idx == trigger_index(current_state, vt_captured_triggers'[i])
                  IN  (/\ idx # NoNote
                       /\ \A j \in (i + 1)..Len(vt_captured_triggers') :
                             trigger_index(current_state, vt_captured_triggers'[j]) # idx)
                      => wire'[note_offsets[idx + 1] + 1] = vt_keyboard_notes'[i]
            /\ \A slot \in 1..Len(note_offsets) :
                  (\A i \in 1..Len(vt_captured_triggers') :
                      trigger_index(current_state, vt_captured_triggers'[i]) # slot - 1)
                  => wire'[note_offsets[slot] + 1] = current_state[slot]]_vars

C34_Witness ==
    /\ vt_sent = 1
    /\ vt_active
    /\ vt_captured_triggers = <<38, 50, 42>>
    /\ vt_keyboard_notes = <<60, 62, 60>>
    /\ current_state = <<62, 60, 60, 49>>
    /\ wire # NONE
    /\ wire[note_offsets[1] + 1] = 62

\* C38: after any sequence of reconciles, thru switches and cleanups, at
\* most one filter is running for the pair of ports, every running filter is
\* the one tracked in _midi_filters, and a DDTi message reaches the external
\* device at most once.
C38_OneFilterPerPair ==
    /\ Cardinality(running_filters) <= 1
    /\ running_filters \subseteq {midi_filters}
    /\ delivered <= 1

====
